---------------------------- MODULE Spec2Model ----------------------------
(***************************************************************************)
(* A model of the webbed_hook server-side git hook binary.                 *)
(*                                                                         *)
(* One invocation of the binary is a sequential process: main() finds the  *)
(* default branch, loads the configuration from HEAD, attempts the bypass, *)
(* selects a hook, reads and resolves the changes and evaluates the hook's *)
(* rule against them.  Every step of main() is one action; the things the  *)
(* process reads (the repository, argv, the environment variables, stdin,  *)
(* the webhook endpoint) are variables that are chosen by Init and never   *)
(* change.                                                                 *)
(*                                                                         *)
(* Strings are sequences of tokens.  A token stands for one character or   *)
(* for a run of characters none of which is '0', ' ', '/' or part of a     *)
(* ".d" suffix, so that the code's character-level operations (all-zero    *)
(* test, split on ' ', path components, trim of ".d") are computed rather  *)
(* than looked up.                                                         *)
(***************************************************************************)
EXTENDS Integers, Sequences, FiniteSets, TLC

VARIABLES
    \* ---- what the process reads (fixed by Init) ----
    head,            \* `git rev-parse --abbrev-ref HEAD`: None or the branch name
    files,           \* file name -> what `git show HEAD:<name>` gives
    argv,            \* env::args(): program name followed by the arguments
    cwd,             \* env::current_dir(): None (error) or a path
    env_count,       \* GIT_PUSH_OPTION_COUNT: None or the variable's text
    env_option,      \* n -> GIT_PUSH_OPTION_n: None or its text
    stdin,           \* the lines of standard input
    repo,            \* the shape of the commit graph (decides merge-base)
    endpoint,        \* what the webhook endpoint does with a request
    gl_env,          \* GL_* variable name -> None or the variable's text
    git_output,      \* what a git subprocess wrote: chunks of lines
    \* ---- the process ----
    pc,              \* position in main()
    exit_code,       \* None while running, then the exit status
    stdout,          \* lines printed to standard output
    stderr,          \* lines printed to standard error
    git,             \* git subprocesses started so far, in order
    http,            \* HTTP requests sent so far, in order
    default_branch,  \* main: default_branch
    load_idx,        \* load_config_from_default_branch: next file to try
    config,          \* main: config (ConfigurationVersion1) once loaded
    loaded_from,     \* the file the configuration came from
    push_options,    \* main: push_options
    hook,            \* main: the selected hook
    hook_type,       \* main: the selected hook's type
    changes,         \* main: changes (the ChangeLines)
    resolved_changes,\* main: resolved_changes
    next_line,       \* resolve_changes: index of the next ChangeLine
    next_change,     \* main: index of the next change of the for loop
    evaluations,     \* top-level evaluations so far: [change, result, trace]
    \* ---- git.rs, parsing the output of a git subprocess ----
    parsing,         \* "idle", or which parser runs, "done", "panicked"
    unread,          \* `lines`: the lines the iterator has not yet yielded
    output           \* the parser's output vector so far

inputs == <<head, files, argv, cwd, env_count, env_option, stdin, repo, endpoint,
            gl_env, git_output>>

locals == <<default_branch, load_idx, config, loaded_from, push_options, hook,
            hook_type, changes, resolved_changes, next_line, next_change,
            evaluations>>

parser == <<parsing, unread, output>>

vars == <<head, files, argv, cwd, env_count, env_option, stdin, repo, endpoint,
          gl_env, git_output, parsing, unread, output,
          pc, exit_code, stdout, stderr, git, http,
          default_branch, load_idx, config, loaded_from, push_options, hook,
          hook_type, changes, resolved_changes, next_line, next_change,
          evaluations>>

None == [none |-> TRUE]

Some(x) == [some |-> x]

IsSome(o) == o # None

---------------------------------------------------------------------------
(* Strings *)

RECURSIVE SplitFrom(_, _, _, _)
\* str::split(sep) for a one-character separator: `acc` is the part being
\* collected, `i` the position in `s`.
SplitFrom(s, sep, i, acc) ==
    IF i > Len(s) THEN <<acc>>
    ELSE IF s[i] = sep THEN <<acc>> \o SplitFrom(s, sep, i + 1, <<>>)
    ELSE SplitFrom(s, sep, i + 1, Append(acc, s[i]))

Split(s, sep) == SplitFrom(s, sep, 1, <<>>)

Contains(seq, x) == \E i \in 1..Len(seq) : seq[i] = x

RECURSIVE TrimEndMatches(_, _)
\* str::trim_end_matches(pat) for a one-token pattern: every trailing
\* repetition of the pattern is removed.
TrimEndMatches(s, pat) ==
    IF Len(s) > 0 /\ s[Len(s)] = pat
    THEN TrimEndMatches(SubSeq(s, 1, Len(s) - 1), pat)
    ELSE s

RECURSIVE Flatten(_)
\* the concatenation of a sequence of sequences
Flatten(seqs) == IF seqs = <<>> THEN <<>> ELSE Head(seqs) \o Flatten(Tail(seqs))

RECURSIVE FilterSome(_)
\* Iterator::filter_map over a sequence of options
FilterSome(os) ==
    IF os = <<>> THEN <<>>
    ELSE IF IsSome(Head(os)) THEN <<Head(os).some>> \o FilterSome(Tail(os))
    ELSE FilterSome(Tail(os))


---------------------------------------------------------------------------
(* Regular expressions (the regex crate), over tokens: "^" and "$" are the *)
(* anchors, ".*" is any run of tokens, "(" is an unclosed group, every     *)
(* other token matches itself.                                             *)

RegexValid(p) == ~Contains(p, "(")

RECURSIVE MatchHere(_, _)
MatchHere(re, text) ==
    IF re = <<>> THEN TRUE
    ELSE IF re = <<"$">> THEN text = <<>>
    ELSE IF Head(re) = ".*"
         THEN \E k \in 0..Len(text) :
                 MatchHere(Tail(re), SubSeq(text, k + 1, Len(text)))
    ELSE /\ text # <<>>
         /\ Head(text) = Head(re)
         /\ MatchHere(Tail(re), Tail(text))

\* Regex::is_match: a match anywhere in the text
IsMatch(re, text) ==
    IF re # <<>> /\ Head(re) = "^"
    THEN MatchHere(Tail(re), text)
    ELSE \E k \in 0..Len(text) : MatchHere(re, SubSeq(text, k + 1, Len(text)))

\* parse_pattern without the test for the empty string
parse_pattern_unchecked(str) == RegexValid(str)

\* parse_pattern: TRUE iff the pattern deserialises
parse_pattern(str) ==
    IF str = <<>> THEN FALSE
    ELSE RegexValid(str)

---------------------------------------------------------------------------
(* Configuration documents and their deserialisation.  A document is the   *)
(* text of a configuration file: whether it is well-formed in its format,  *)
(* and the tree it denotes.                                                *)

RECURSIVE ValidRule(_), ValidCondition(_), AllValidRules(_), AllValidConditions(_)

AllValidRules(rs) ==
    rs = <<>> \/ (ValidRule(Head(rs)) /\ AllValidRules(Tail(rs)))

AllValidConditions(cs) ==
    cs = <<>> \/ (ValidCondition(Head(cs)) /\ AllValidConditions(Tail(cs)))

\* Deserialize for Condition: patterns compile, NonEmpty lists are not empty
ValidCondition(c) ==
    CASE c.type \in {"ref-matches", "any-commit-message-matches",
                     "modified-file-matches", "added-file-matches",
                     "removed-file-matches"} ->
            parse_pattern(c.pattern)
      [] c.type = "all-commits-signed" ->
            IsSome(c.allowed_key_ids) => c.allowed_key_ids.some # <<>>
      [] c.type \in {"and", "or", "xor"} ->
            c.conditions # <<>> /\ AllValidConditions(c.conditions)
      [] c.type = "not" -> ValidCondition(c.condition)
      [] c.type = "rule" -> ValidRule(c.rule)
      [] OTHER -> TRUE

\* Deserialize for Rule
ValidRule(r) ==
    CASE r.type = "chain" -> r.rules # <<>> /\ AllValidRules(r.rules)
      [] r.type = "select" ->
            /\ AllValidConditions([i \in 1..Len(r.first_of) |-> r.first_of[i].condition])
            /\ AllValidRules([i \in 1..Len(r.first_of) |-> r.first_of[i].rule])
            /\ (IsSome(r.default) => ValidRule(r.default.some))
      [] r.type = "conditional" -> ValidCondition(r.condition)
      [] r.type = "webhook" ->
            IsSome(r.greeting_messages) => r.greeting_messages.some # <<>>
      [] OTHER -> TRUE

ValidHook(h) == IsSome(h) => ValidRule(h.some.rule)

\* serde_yml::from_str / toml::from_str into Configuration: Ok(configuration)
\* or Err(message)
ParseConfiguration(text) ==
    IF ~text.well_formed THEN [ok |-> FALSE, err |-> <<"syntax error">>]
    ELSE IF text.version # <<"1">> THEN [ok |-> FALSE, err |-> <<"unknown variant">>]
    ELSE IF ~(ValidHook(text.pre_receive) /\ ValidHook(text.update)
              /\ ValidHook(text.post_receive))
         THEN [ok |-> FALSE, err |-> <<"invalid value">>]
    ELSE [ok |-> TRUE,
          val |-> [pre_receive |-> text.pre_receive,
                   post_receive |-> text.post_receive,
                   update |-> text.update,
                   bypass |-> text.bypass]]

---------------------------------------------------------------------------
(* The repository, as git answers about it.  The commit graph has the       *)
(* commits HashA (where the default branch points), HashB and HashC; `repo` *)
(* says how they are related.                                               *)

ZeroHash == <<"0", "0">>
HashA == <<"a", "1">>
HashB == <<"b", "0">>
HashC == <<"c", "2">>
Main == <<"main">>

Commits == {HashA, HashB, HashC}

Repos == {"linear", "signed", "diverged", "unrelated"}

\* what a revision argument names, if anything
RevParse(rev) ==
    IF rev \in Commits THEN Some(rev)
    ELSE IF rev = Main THEN Some(HashA)
    ELSE None

\* the output of `git merge-base a b` in repository r: None when git fails
GitMergeBase(r, a, b) ==
    IF ~IsSome(RevParse(a)) \/ ~IsSome(RevParse(b)) THEN None
    ELSE IF RevParse(a) = RevParse(b) THEN RevParse(a)
    ELSE CASE r \in {"linear", "signed"} ->
                Some(IF HashA \in {RevParse(a).some, RevParse(b).some}
                     THEN HashA ELSE HashC)
           [] r = "diverged" -> Some(HashC)
           [] r = "unrelated" -> None

\* the entries `git log` lists for the given arguments in repository r
GitLogEntries(r, args) ==
    LET parts == Split(args[Len(args)], "..")
        tip == parts[Len(parts)]
    IN
    IF ~IsSome(RevParse(tip)) THEN <<>>
    ELSE CASE r = "linear" ->
                <<[message |-> <<"fix">>, signed_by_key_id |-> None]>>
           [] r = "signed" ->
                <<[message |-> <<"fix", " typo">>, signed_by_key_id |-> Some(<<"ABCD">>)],
                  [message |-> <<"wip">>, signed_by_key_id |-> Some(<<"ABCD">>)]>>
           [] r = "diverged" ->
                <<[message |-> <<"wip">>, signed_by_key_id |-> Some(<<"ABCD">>)],
                  [message |-> <<"fix">>, signed_by_key_id |-> None]>>
           [] r = "unrelated" -> <<>>

\* the output of `git diff old..new`: None when git fails
GitDiff(r, old, new) ==
    IF IsSome(RevParse(old)) /\ IsSome(RevParse(new))
    THEN Some(<<"patch">>) ELSE None

\* what `git diff --name-status old..new` lists, parsed: None when git fails
GitNameStatus(r, old, new) ==
    IF IsSome(RevParse(old)) /\ IsSome(RevParse(new))
    THEN Some(<<[status |-> "Modified", name |-> <<"src/", "main.rs">>],
                [status |-> "Added", name |-> <<"docs/", "new.md">>],
                [status |-> "Deleted", name |-> <<"old.txt">>],
                [status |-> "Renamed", name |-> <<"src/", "lib.rs">>]>>)
    ELSE None

---------------------------------------------------------------------------
(* git.rs *)

\* merge_base
merge_base(r, old_commit, new_commit) == GitMergeBase(r, old_commit, new_commit)

\* parse_single_optional_line prints the line it reads to standard output
DebugLine(entry) ==
    <<"some line: ">> \o
    (IF IsSome(entry.signed_by_key_id) THEN entry.signed_by_key_id.some ELSE <<>>)

\* git_log: the parsed entries, and what parsing them printed
git_log(r, args) ==
    LET entries == GitLogEntries(r, args)
    IN [entries |-> entries,
        printed |-> [i \in 1..Len(entries) |-> DebugLine(entries[i])]]

git_log_for_range(r, from, to) == git_log(r, <<from \o <<"..">> \o to>>)

git_log_limited(r, limit, to) ==
    git_log(r, <<<<"--max-count=", ToString(limit)>>, to>>)

\* diff
diff(r, old_commit, new_commit) == GitDiff(r, old_commit, new_commit)

\* diff_name_status
diff_name_status(r, old_commit, new_commit) ==
    IF IsSome(GitNameStatus(r, old_commit, new_commit))
    THEN GitNameStatus(r, old_commit, new_commit).some
    ELSE <<>>

---------------------------------------------------------------------------
(* Results *)

Ok(v) == [ok |-> TRUE, val |-> v]

Err(e) == [ok |-> FALSE, err |-> e]

RuleResult(action, messages) == [action |-> action, messages |-> messages]

RECURSIVE Display(_)
\* impl Display for RuleError / ConditionError / HookError
Display(e) ==
    CASE e.type = "Validation" -> <<"Validation error: ">> \o e.msg
      [] e.type = "Request" -> <<"Request error: ">> \o e.msg
      [] OTHER -> Display(e.error)

---------------------------------------------------------------------------
(* git.rs: parsing the output of a git subprocess.  The output is a         *)
(* sequence of lines as `Lines<&[u8]>` yields them: Ok(text) or, for a line *)
(* that is not UTF-8, Err.  Every parsing function takes the lines not yet  *)
(* yielded and returns its value with the lines left (`rest`).              *)

MULTILINE_INDENT == 4

\* the tokens of the lines, with their lengths in bytes
TokenBytes ==
    [t \in {"commit", "    ", "fix", "typo", "9fceb02d", "41ab77c0", "Ann <a@x>",
            "2024-05-01T10:00:00+02:00", "2024-05-01T08:00:00Z", "yesterday",
            "ABCD", "ab", "warning: x"} |->
        CASE t = "commit" -> 6
          [] t \in {"    ", "typo", "ABCD"} -> 4
          [] t = "fix" -> 3
          [] t = "ab" -> 2
          [] t \in {"9fceb02d", "41ab77c0"} -> 8
          [] t \in {"Ann <a@x>", "yesterday"} -> 9
          [] t = "2024-05-01T10:00:00+02:00" -> 25
          [] t = "2024-05-01T08:00:00Z" -> 20
          [] t = "warning: x" -> 10]

\* what follows the first n bytes of a token longer than n bytes
AfterBytes(t, n) ==
    CASE n = 4 /\ t = "commit" -> "it"
      [] n = 4 /\ t = "9fceb02d" -> "b02d"
      [] n = 4 /\ t = "41ab77c0" -> "77c0"
      [] n = 4 /\ t = "Ann <a@x>" -> "<a@x>"
      [] n = 4 /\ t = "yesterday" -> "erday"
      [] n = 4 /\ t = "2024-05-01T10:00:00+02:00" -> "-05-01T10:00:00+02:00"
      [] n = 4 /\ t = "2024-05-01T08:00:00Z" -> "-05-01T08:00:00Z"
      [] n = 4 /\ t = "warning: x" -> "ing: x"
      [] n = 1 /\ t = "typo" -> "ypo"
      [] n = 1 /\ t = "    " -> "   "
      [] n = 2 /\ t = "fix" -> "x"

RECURSIVE BytesOf(_)
\* str::len
BytesOf(text) ==
    IF text = <<>> THEN 0 ELSE TokenBytes[Head(text)] + BytesOf(Tail(text))

RECURSIVE SliceFrom(_, _)
\* &line.as_str()[n..] of a line of at least n bytes
SliceFrom(text, n) ==
    IF n = 0 THEN text
    ELSE IF TokenBytes[Head(text)] <= n
    THEN SliceFrom(Tail(text), n - TokenBytes[Head(text)])
    ELSE <<AfterBytes(Head(text), n)>> \o Tail(text)

\* what pushing one more line does to the message read so far
PushLine(message, line) ==
    IF message = <<>> THEN SliceFrom(line, MULTILINE_INDENT)
    ELSE message \o <<"\n">> \o SliceFrom(line, MULTILINE_INDENT)

RECURSIVE IndentedFrom(_, _)
\* parse_indented_multiline_string: the loop, `message` read so far.  The
\* slice panics on a line shorter than MULTILINE_INDENT bytes.
IndentedFrom(ls, message) ==
    IF ls = <<>> THEN [val |-> message, rest |-> <<>>, panic |-> FALSE]
    ELSE IF ~Head(ls).ok THEN [val |-> message, rest |-> Tail(ls), panic |-> FALSE]
    ELSE IF Head(ls).val = <<>>
    THEN [val |-> message, rest |-> Tail(ls), panic |-> FALSE]
    ELSE IF BytesOf(Head(ls).val) < MULTILINE_INDENT
    THEN [val |-> message, rest |-> Tail(ls), panic |-> TRUE]
    ELSE IndentedFrom(Tail(ls), PushLine(message, Head(ls).val))

\* parse_indented_multiline_string
parse_indented_multiline_string(ls) == IndentedFrom(ls, <<>>)

\* parse_single_optional_line: an empty line is None; prints what it read
parse_single_optional_line(ls) ==
    IF ls = <<>>
    THEN [res |-> Err(<<"no more lines">>), rest |-> <<>>,
          printed |-> <<<<"no line!">>>>]
    ELSE IF Head(ls).ok
    THEN [res |-> Ok(IF Head(ls).val = <<>> THEN None ELSE Some(Head(ls).val)),
          rest |-> Tail(ls),
          printed |-> <<<<"some line: ">> \o Head(ls).val>>]
    ELSE [res |-> Head(ls), rest |-> Tail(ls), printed |-> <<>>]

\* parse_single_line
parse_single_line(ls) ==
    IF ls = <<>> THEN [res |-> Err(<<"no more lines">>), rest |-> <<>>]
    ELSE [res |-> Head(ls), rest |-> Tail(ls)]

\* convert_to_utc_rfc3339: the instant in UTC, or an error for a text that is
\* no ISO 8601 date
convert_to_utc_rfc3339(text) ==
    CASE text = <<"2024-05-01T10:00:00+02:00">> -> Ok(<<"2024-05-01T08:00:00Z">>)
      [] text = <<"2024-05-01T08:00:00Z">> -> Ok(<<"2024-05-01T08:00:00Z">>)
      [] OTHER -> Err(<<"broken date">>)

\* parse_single_date_line: what it makes of parse_single_line's result
parse_single_date_line(line) ==
    [res |-> IF line.res.ok THEN convert_to_utc_rfc3339(line.res.val) ELSE line.res,
     rest |-> line.rest]

RECURSIVE UntilEmptyFrom(_, _)
\* parse_lines_until_empty: the loop, `out` read so far
UntilEmptyFrom(ls, out) ==
    IF ls = <<>> THEN [val |-> out, rest |-> <<>>]
    ELSE IF Head(ls).ok /\ Head(ls).val # <<>>
    THEN UntilEmptyFrom(Tail(ls), Append(out, Head(ls).val))
    ELSE [val |-> out, rest |-> Tail(ls)]

\* parse_lines_until_empty
parse_lines_until_empty(ls) == UntilEmptyFrom(ls, <<>>)

RECURSIVE SkipToCommit(_)
\* parse_log_entry: the loop that looks for the next "commit" line
SkipToCommit(ls) ==
    IF ls = <<>> THEN [found |-> FALSE, rest |-> <<>>]
    ELSE IF Head(ls) = Ok(<<"commit">>) THEN [found |-> TRUE, rest |-> Tail(ls)]
    ELSE SkipToCommit(Tail(ls))

\* the value of an expression, computed once: the element of a singleton
The(S) == CHOOSE x \in S : TRUE

\* what parse_log_entry returns through `?`
EntryError(res, rest, printed) ==
    [res |-> res, rest |-> rest, printed |-> printed, panic |-> FALSE]

\* parse_log_entry: the message, and the entry
EntryWithMessage(hash, parents, author, author_date, committer, committer_date, key, message) ==
    [res |-> Ok(Some([hash |-> hash.res.val, parents |-> parents.val,
                      author |-> author.res.val,
                      author_date |-> author_date.res.val,
                      committer |-> committer.res.val,
                      committer_date |-> committer_date.res.val,
                      signed_by_key_id |-> key.res.val,
                      message |-> message.val])),
     rest |-> message.rest, printed |-> key.printed, panic |-> message.panic]

\* parse_log_entry: the key line
EntryFromKey(hash, parents, author, author_date, committer, committer_date, key) ==
    IF ~key.res.ok THEN EntryError(key.res, key.rest, key.printed)
    ELSE The({EntryWithMessage(hash, parents, author, author_date, committer,
                               committer_date, key, message) :
              message \in {parse_indented_multiline_string(key.rest)}})

\* parse_log_entry: the committer's date
EntryFromCommitterDate(hash, parents, author, author_date, committer, committer_date) ==
    IF ~committer_date.res.ok THEN EntryError(committer_date.res, committer_date.rest, <<>>)
    ELSE The({EntryFromKey(hash, parents, author, author_date, committer,
                           committer_date, key) :
              key \in {parse_single_optional_line(committer_date.rest)}})

\* parse_log_entry: the committer
EntryFromCommitter(hash, parents, author, author_date, committer) ==
    IF ~committer.res.ok THEN EntryError(committer.res, committer.rest, <<>>)
    ELSE The({EntryFromCommitterDate(hash, parents, author, author_date, committer,
                                     parse_single_date_line(line)) :
              line \in {parse_single_line(committer.rest)}})

\* parse_log_entry: the author's date
EntryFromAuthorDate(hash, parents, author, author_date) ==
    IF ~author_date.res.ok THEN EntryError(author_date.res, author_date.rest, <<>>)
    ELSE The({EntryFromCommitter(hash, parents, author, author_date, committer) :
              committer \in {parse_single_line(author_date.rest)}})

\* parse_log_entry: the author
EntryFromAuthor(hash, parents, author) ==
    IF ~author.res.ok THEN EntryError(author.res, author.rest, <<>>)
    ELSE The({EntryFromAuthorDate(hash, parents, author, parse_single_date_line(line)) :
              line \in {parse_single_line(author.rest)}})

\* parse_log_entry: the parents
EntryFromParents(hash, parents) ==
    The({EntryFromAuthor(hash, parents, author) :
         author \in {parse_single_line(parents.rest)}})

\* parse_log_entry: the hash
EntryFromHash(hash) ==
    IF ~hash.res.ok THEN EntryError(hash.res, hash.rest, <<>>)
    ELSE The({EntryFromParents(hash, parents) :
              parents \in {parse_lines_until_empty(hash.rest)}})

\* a parse_log_entry for which the end of the input is one more error
EntryAfterCommitNoEnd(skipped) ==
    IF ~skipped.found THEN EntryError(Err(<<"no more lines">>), skipped.rest, <<>>)
    ELSE The({EntryFromHash(hash) : hash \in {parse_single_line(skipped.rest)}})

\* parse_log_entry: after the loop that looks for "commit"
EntryAfterCommit(skipped) ==
    IF ~skipped.found THEN EntryError(Ok(None), skipped.rest, <<>>)
    ELSE The({EntryFromHash(hash) : hash \in {parse_single_line(skipped.rest)}})

\* parse_log_entry
parse_log_entry(ls) ==
    The({EntryAfterCommit(skipped) : skipped \in {SkipToCommit(ls)}})

\* FileStatus::from_str
FileStatusFromStr(s) ==
    CASE s = "A" -> Ok("Added")
      [] s = "C" -> Ok("Copied")
      [] s = "D" -> Ok("Deleted")
      [] s = "M" -> Ok("Modified")
      [] s = "R" -> Ok("Renamed")
      [] s = "T" -> Ok("TypeChanged")
      [] s = "U" -> Ok("Unmerged")
      [] s = "X" -> Ok("Unknown")
      [] s = "B" -> Ok("BrokenPairing")
      [] OTHER -> Err(<<"unknown file status: ", s>>)

AsciiWhitespace == {" ", "\t"}

RECURSIVE SplitAsciiWhitespace(_)
\* str::split_ascii_whitespace: the tokens between runs of whitespace (a
\* line's text is a sequence of whitespace characters and words)
SplitAsciiWhitespace(text) ==
    IF text = <<>> THEN <<>>
    ELSE IF Head(text) \in AsciiWhitespace THEN SplitAsciiWhitespace(Tail(text))
    ELSE <<Head(text)>> \o SplitAsciiWhitespace(Tail(text))

\* a closure that takes the first two words of a longer line
NameStatusOfWordsLoose(words) ==
    IF words = <<>> THEN None
    ELSE IF ~FileStatusFromStr(words[1]).ok THEN None
    ELSE IF Len(words) < 2 THEN None
    ELSE Some([status |-> FileStatusFromStr(words[1]).val, name |-> <<words[2]>>])

\* parse_name_status: the closure of filter_map, for the words of a line
NameStatusOfWords(words) ==
    IF words = <<>> THEN None
    ELSE IF ~FileStatusFromStr(words[1]).ok THEN None
    ELSE IF Len(words) < 2 THEN None
    ELSE IF Len(words) > 2 THEN None
    ELSE Some([status |-> FileStatusFromStr(words[1]).val, name |-> <<words[2]>>])

\* parse_name_status: the closure of filter_map
NameStatusOfLine(line) ==
    IF ~line.ok THEN None ELSE NameStatusOfWords(SplitAsciiWhitespace(line.val))

---------------------------------------------------------------------------
(* util.rs and gitlab.rs.  The text of a variable is a sequence of tokens:   *)
(* a prefix such as "user-" is one token, a run of decimal digits is one     *)
(* token.                                                                    *)

DigitRuns == {"7", "12", "42"}

\* str::parse::<u64>: the whole text must be a run of decimal digits
ParseU64(s) ==
    IF Len(s) = 1 /\ s[1] \in DigitRuns
    THEN Ok(s[1])
    ELSE Err([type |-> "ParseIntError"])

StartsWith(s, prefix) == s # <<>> /\ Head(s) = prefix

\* GitlabId::from_str
GitlabIdFromStr(s) ==
    IF StartsWith(s, "user-")
    THEN IF ParseU64(s).ok
         THEN Ok([type |-> "user", id |-> ParseU64(s).val])
         ELSE ParseU64(s)
    ELSE IF StartsWith(s, "key-")
    THEN IF ParseU64(s).ok
         THEN Ok([type |-> "key", id |-> ParseU64(s).val])
         ELSE ParseU64(s)
    ELSE Err([type |-> "UnsupportedInput"])

\* GitlabProtocol::from_str
GitlabProtocolFromStr(s) ==
    IF s \in {<<"http">>, <<"ssh">>, <<"web">>}
    THEN Ok(s)
    ELSE Err([type |-> "UnsupportedInput"])

\* GitlabRepository::from_str
GitlabRepositoryFromStr(s) ==
    IF StartsWith(s, "project-")
    THEN IF ParseU64(s).ok
         THEN Ok([type |-> "project", id |-> ParseU64(s).val])
         ELSE ParseU64(s)
    ELSE Err([type |-> "UnsupportedInput"])

\* env_as::<T>: the variable parsed by T::from_str, None when it is unset or
\* does not parse
env_as(FromStr(_), value) ==
    IF IsSome(value) /\ FromStr(value.some).ok
    THEN Some(FromStr(value.some).val)
    ELSE None

\* get_gitlab_metadata
get_gitlab_metadata(env) ==
    LET id == env_as(GitlabIdFromStr, env["GL_ID"])
        project_path == env["GL_PROJECT_PATH"]
        protocol == env_as(GitlabProtocolFromStr, env["GL_PROTOCOL"])
        repository == env_as(GitlabRepositoryFromStr, env["GL_REPOSITORY"])
        username == env["GL_USERNAME"]
    IN IF ~IsSome(id) THEN None
       ELSE IF ~IsSome(project_path) THEN None
       ELSE IF ~IsSome(protocol) THEN None
       ELSE IF ~IsSome(repository) THEN None
       ELSE IF ~IsSome(username) THEN None
       ELSE Some([id |-> id.some, project_path |-> project_path.some,
                  protocol |-> protocol.some, repository |-> repository.some,
                  username |-> username.some])

---------------------------------------------------------------------------
(* webhook.rs *)

MAX_CONNECT_TIMEOUT == 5000
DEFAULT_CONNECT_TIMEOUT == 1000
MAX_REQUEST_TIMEOUT == 20000
DEFAULT_REQUEST_TIMEOUT == 3000

UnwrapOr(o, d) == IF IsSome(o) THEN o.some ELSE d

\* get_metadata
get_metadata(env) ==
    IF IsSome(get_gitlab_metadata(env))
    THEN [type |-> "gitlab", gitlab |-> get_gitlab_metadata(env).some]
    ELSE [type |-> "none"]

\* perform_request: the result and the requests sent, given the requests
\* sent before and the endpoint's behaviour
perform_request(rule, payload, ep, sent) ==
    LET connect_timeout == UnwrapOr(rule.connect_timeout, DEFAULT_CONNECT_TIMEOUT)
        request_timeout == UnwrapOr(rule.request_timeout, DEFAULT_REQUEST_TIMEOUT)
    IN
    IF connect_timeout > MAX_CONNECT_TIMEOUT
    THEN [res |-> Err([type |-> "Validation", msg |-> <<"Connect timeout">>]),
          http |-> sent]
    ELSE IF connect_timeout > MAX_REQUEST_TIMEOUT
    THEN [res |-> Err([type |-> "Validation", msg |-> <<"Request timeout">>]),
          http |-> sent]
    ELSE LET request == [url |-> rule.url, changes |-> payload,
                         metadata |-> get_metadata(gl_env)]
         IN IF ep.kind = "error"
            THEN [res |-> Err([type |-> "Request", msg |-> <<"transport">>]),
                  http |-> Append(sent, request)]
            ELSE [res |-> Ok([success |-> ep.status \in 200..299,
                              messages |-> UnwrapOr(ep.body, <<>>)]),
                  http |-> Append(sent, request)]

---------------------------------------------------------------------------
(* rule.rs.  Evaluation is a function of the rule, the context and the      *)
(* evaluation state `st`, which carries what evaluation does to the world:  *)
(*   git, http  the subprocesses started and the requests sent,             *)
(*   out        the lines printed to standard output,                       *)
(*   trace      the rules and conditions evaluated, in order,               *)
(*   log, patch, file_status                                                *)
(*              the change's lazy cells (None until first read).            *)
(* Every operator returns [res |-> Ok(..) or Err(..), st |-> the new state].*)

LogLimit == 100

\* lazy_log running git on every read
ForceLogAgain(ctx, st) ==
    LET gd == ctx.change.git_data
        run == IF IsSome(gd.log_base)
               THEN git_log_for_range(ctx.repo, gd.log_base.some, gd.new_commit)
               ELSE git_log_limited(ctx.repo, LogLimit, gd.new_commit)
        args == IF IsSome(gd.log_base)
                THEN <<gd.log_base.some \o <<"..">> \o gd.new_commit>>
                ELSE <<<<"--max-count=", ToString(LogLimit)>>, gd.new_commit>>
    IN [st EXCEPT !.log = Some(run.entries),
                  !.git = Append(@, [cmd |-> "log", args |-> args]),
                  !.out = @ \o run.printed]

\* LazyCell deref of git_data.log (lazy_log's closure on first read)
ForceLog(ctx, st) ==
    IF IsSome(st.log) THEN st
    ELSE LET gd == ctx.change.git_data
             run == IF IsSome(gd.log_base)
                    THEN git_log_for_range(ctx.repo, gd.log_base.some, gd.new_commit)
                    ELSE git_log_limited(ctx.repo, LogLimit, gd.new_commit)
             args == IF IsSome(gd.log_base)
                     THEN <<gd.log_base.some \o <<"..">> \o gd.new_commit>>
                     ELSE <<<<"--max-count=", ToString(LogLimit)>>, gd.new_commit>>
         IN [st EXCEPT !.log = Some(run.entries),
                       !.git = Append(@, [cmd |-> "log", args |-> args]),
                       !.out = @ \o run.printed]

\* LazyCell deref of git_data.patch (lazy_diff's closure on first read)
ForcePatch(ctx, st) ==
    IF IsSome(st.patch) THEN st
    ELSE LET gd == ctx.change.git_data
         IN [st EXCEPT !.patch = Some(diff(ctx.repo, gd.old_commit, gd.new_commit)),
                       !.git = Append(@, [cmd |-> "diff",
                                          args |-> <<gd.old_commit \o <<"..">> \o gd.new_commit>>])]

\* LazyCell deref of git_data.file_status (lazy_file_status's closure on
\* first read)
ForceFileStatus(ctx, st) ==
    IF IsSome(st.file_status) THEN st
    ELSE LET gd == ctx.change.git_data
         IN [st EXCEPT !.file_status =
                           Some(diff_name_status(ctx.repo, gd.old_commit, gd.new_commit)),
                       !.git = Append(@, [cmd |-> "diff",
                                          args |-> <<<<"--name-status">>,
                                                     gd.old_commit \o <<"..">>
                                                        \o gd.new_commit>>])]

\* is_derived_from with true for an unset accept_removes
is_derived_from_accepting(ref_a, ctx, accept_removes, st) ==
    IF ctx.change.type = "RemoveRef"
    THEN [res |-> Ok(UnwrapOr(accept_removes, TRUE)), st |-> st]
    ELSE LET ref_b == IF ctx.change.type = "UpdateRef"
                      THEN ctx.change.new_commit ELSE ctx.change.commit
         IN [res |-> Ok(IsSome(merge_base(ctx.repo, ref_a, ref_b))),
             st |-> [st EXCEPT !.git = Append(@, [cmd |-> "merge-base",
                                                  args |-> <<ref_a, ref_b>>])]]

\* is_derived_from
is_derived_from(ref_a, ctx, accept_removes, st) ==
    IF ctx.change.type = "RemoveRef"
    THEN [res |-> Ok(UnwrapOr(accept_removes, FALSE)), st |-> st]
    ELSE LET ref_b == IF ctx.change.type = "UpdateRef"
                      THEN ctx.change.new_commit ELSE ctx.change.commit
         IN [res |-> Ok(IsSome(merge_base(ctx.repo, ref_a, ref_b))),
             st |-> [st EXCEPT !.git = Append(@, [cmd |-> "merge-base",
                                                  args |-> <<ref_a, ref_b>>])]]

\* any_file_matches on a change with facts, the file status forced in st1
AnyFileStatusMatches(filter, pattern, st1) ==
    [res |-> Ok(\E i \in 1..Len(st1.file_status.some) :
                   /\ st1.file_status.some[i].status \in filter
                   /\ IsMatch(pattern, st1.file_status.some[i].name)),
     st |-> st1]

\* any_file_matches
any_file_matches(ctx, accept_removes, filter, pattern, st) ==
    IF ctx.change.type = "RemoveRef"
    THEN [res |-> Ok(UnwrapOr(accept_removes, TRUE)), st |-> st]
    ELSE AnyFileStatusMatches(filter, pattern, ForceFileStatus(ctx, st))

\* Condition::AllCommitsSigned with an allow-list: the for loop returns false
\* at the first entry that is unsigned or signed by another key, and the
\* function returns false after the loop
AllowedKeysSigned(allowed, log) ==
    IF \E i \in 1..Len(log) :
          ~(IsSome(log[i].signed_by_key_id)
            /\ Contains(allowed, log[i].signed_by_key_id.some))
    THEN FALSE
    ELSE FALSE

\* Condition::AllCommitsSigned on a change with a log, the log forced in st1
AllCommitsSigned(c, st1) ==
    [res |-> Ok(IF IsSome(c.allowed_key_ids)
                THEN AllowedKeysSigned(c.allowed_key_ids.some, st1.log.some)
                ELSE \A i \in 1..Len(st1.log.some) :
                        IsSome(st1.log.some[i].signed_by_key_id)),
     st |-> st1]

\* OptionOnRuleComplete::to_rule_result
to_rule_result(on_complete, default_action) ==
    IF IsSome(on_complete)
    THEN RuleResult(on_complete.some.action, on_complete.some.messages)
    ELSE RuleResult(default_action, <<>>)

\* the webhook payload of a change whose patch and log are forced in st
WebhookPayload(c, st) ==
    IF c.type = "AddRef"
    THEN [type |-> "add", name |-> c.name, commit |-> c.commit,
          patch |-> st.patch.some, log |-> Some(st.log.some)]
    ELSE [type |-> "update", name |-> c.name,
          old_commit |-> c.old_commit, new_commit |-> c.new_commit,
          merge_base |-> c.merge_base, force |-> c.force,
          patch |-> st.patch.some, log |-> Some(st.log.some)]

WithPayload(c, st) == [payload |-> WebhookPayload(c, st), st |-> st]

\* Rule::Webhook: the payload of the change, with the facts it forces
WebhookChange(ctx, st) ==
    IF ctx.change.type = "RemoveRef"
    THEN [payload |-> [type |-> "remove", name |-> ctx.change.name,
                       commit |-> ctx.change.commit],
          st |-> st]
    ELSE WithPayload(ctx.change, ForceLog(ctx, ForcePatch(ctx, st)))

RECURSIVE RuleEvaluate(_, _, _), ConditionEvaluate(_, _, _),
          ChainLoop(_, _, _, _, _), SelectLoop(_, _, _, _),
          AndLoop(_, _, _, _), OrLoop(_, _, _, _), XorLoop(_, _, _, _, _)

\* Condition::And evaluating the children after a false one as well
AndStepEager(conditions, i, ctx, r) ==
    IF ~r.res.ok THEN r
    ELSE IF ~r.res.val
    THEN [res |-> Ok(FALSE), st |-> AndLoop(conditions, i + 1, ctx, r.st).st]
    ELSE AndLoop(conditions, i + 1, ctx, r.st)

\* Condition::And: what the loop does with the result r of child i
AndStep(conditions, i, ctx, r) ==
    IF ~r.res.ok THEN r
    ELSE IF ~r.res.val THEN [res |-> Ok(FALSE), st |-> r.st]
    ELSE AndLoop(conditions, i + 1, ctx, r.st)

\* Condition::And: the for loop from child i
AndLoop(conditions, i, ctx, st) ==
    IF i > Len(conditions) THEN [res |-> Ok(TRUE), st |-> st]
    ELSE AndStep(conditions, i, ctx, ConditionEvaluate(conditions[i], ctx, st))

\* Condition::Or: what the loop does with the result r of child i
OrStep(conditions, i, ctx, r) ==
    IF ~r.res.ok THEN r
    ELSE IF r.res.val THEN [res |-> Ok(TRUE), st |-> r.st]
    ELSE OrLoop(conditions, i + 1, ctx, r.st)

\* Condition::Or: the for loop from child i
OrLoop(conditions, i, ctx, st) ==
    IF i > Len(conditions) THEN [res |-> Ok(FALSE), st |-> st]
    ELSE OrStep(conditions, i, ctx, ConditionEvaluate(conditions[i], ctx, st))

\* Condition::Xor: what the loop does with the result r of child i
XorStep(conditions, i, first_result, ctx, r) ==
    IF ~r.res.ok THEN r
    ELSE IF r.res.val # first_result THEN [res |-> Ok(TRUE), st |-> r.st]
    ELSE XorLoop(conditions, i + 1, first_result, ctx, r.st)

\* Condition::Xor: the for loop over the tail from child i
XorLoop(conditions, i, first_result, ctx, st) ==
    IF i > Len(conditions) THEN [res |-> Ok(FALSE), st |-> st]
    ELSE XorStep(conditions, i, first_result, ctx,
                 ConditionEvaluate(conditions[i], ctx, st))

\* Condition::Xor: after the head's result
XorHead(conditions, ctx, first) ==
    IF ~first.res.ok THEN first
    ELSE XorLoop(conditions, 2, first.res.val, ctx, first.st)

\* Condition::Not: the negation of the child's result r
NotOf(r) ==
    IF ~r.res.ok THEN r ELSE [res |-> Ok(~r.res.val), st |-> r.st]

\* Condition::Rule taking only Accept for true
RuleAsConditionStrict(r) ==
    IF r.res.ok
    THEN [res |-> Ok(r.res.val.action = "Accept"), st |-> r.st]
    ELSE [res |-> Err([type |-> "RuleError", error |-> r.res.err]), st |-> r.st]

\* Condition::Rule: the boolean of the embedded rule's result r
RuleAsCondition(r) ==
    IF r.res.ok
    THEN [res |-> Ok(r.res.val.action \in {"Accept", "Continue"}), st |-> r.st]
    ELSE [res |-> Err([type |-> "RuleError", error |-> r.res.err]), st |-> r.st]

\* Condition::AnyCommitMessageMatches on a change with a log, the log forced
AnyCommitMessageMatches(c, st1) ==
    [res |-> Ok(\E i \in 1..Len(st1.log.some) :
                   IsMatch(c.pattern, st1.log.some[i].message)),
     st |-> st1]

\* Condition::evaluate_traced
ConditionEvaluateTraced(c, ctx, st) ==
    CASE c.type = "ref-is" -> [res |-> Ok(ctx.change.name = c.name), st |-> st]
      [] c.type = "ref-matches" ->
            [res |-> Ok(IsMatch(c.pattern, ctx.change.name)), st |-> st]
      [] c.type = "any-commit-message-matches" ->
            IF ctx.change.type = "RemoveRef"
            THEN [res |-> Ok(UnwrapOr(c.accept_removes, TRUE)), st |-> st]
            ELSE AnyCommitMessageMatches(c, ForceLog(ctx, st))
      [] c.type = "modified-file-matches" ->
            any_file_matches(ctx, c.accept_removes, {"Modified", "Renamed"},
                             c.pattern, st)
      [] c.type = "added-file-matches" ->
            any_file_matches(ctx, c.accept_removes, {"Added"}, c.pattern, st)
      [] c.type = "removed-file-matches" ->
            any_file_matches(ctx, c.accept_removes, {"Deleted"}, c.pattern, st)
      [] c.type = "derived-from-default-branch" ->
            is_derived_from(ctx.default_branch, ctx, c.accept_removes, st)
      [] c.type = "derived-from-branch" ->
            is_derived_from(c.name, ctx, c.accept_removes, st)
      [] c.type = "bypass-requested" ->
            [res |-> Ok(Contains(ctx.push_options, c.option)), st |-> st]
      [] c.type = "and" -> AndLoop(c.conditions, 1, ctx, st)
      [] c.type = "or" -> OrLoop(c.conditions, 1, ctx, st)
      [] c.type = "xor" ->
            IF Len(c.conditions) = 1 THEN [res |-> Ok(TRUE), st |-> st]
            ELSE XorHead(c.conditions, ctx, ConditionEvaluate(c.conditions[1], ctx, st))
      [] c.type = "not" -> NotOf(ConditionEvaluate(c.condition, ctx, st))
      [] c.type = "true" -> [res |-> Ok(TRUE), st |-> st]
      [] c.type = "false" -> [res |-> Ok(FALSE), st |-> st]
      [] c.type = "rule" -> RuleAsCondition(RuleEvaluate(c.rule, ctx, st))
      [] c.type = "ref-add" -> [res |-> Ok(ctx.change.type = "AddRef"), st |-> st]
      [] c.type = "ref-remove" -> [res |-> Ok(ctx.change.type = "RemoveRef"), st |-> st]
      [] c.type = "ref-update" -> [res |-> Ok(ctx.change.type = "UpdateRef"), st |-> st]
      [] c.type = "linear-history" ->
            [res |-> Ok(IF ctx.change.type = "UpdateRef" THEN ~ctx.change.force ELSE TRUE),
             st |-> st]
      [] c.type = "all-commits-signed" ->
            IF ctx.change.type = "RemoveRef"
            THEN [res |-> Ok(TRUE), st |-> st]
            ELSE AllCommitsSigned(c, ForceLog(ctx, st))
      [] c.type = "is-tag" ->
            [res |-> Ok(ctx.change.name = <<"refs/tags/">> \o c.name), st |-> st]

\* Condition::evaluate
ConditionEvaluate(c, ctx, st) ==
    ConditionEvaluateTraced(c, ctx, [st EXCEPT !.trace = Append(@, c)])

\* Rule::Chain going on after a sub-rule that failed
ChainStepForgiving(rules, i, ctx, r) ==
    IF ~r.res.ok THEN ChainLoop(rules, i + 1, RuleResult("Continue", <<>>), ctx, r.st)
    ELSE IF r.res.val.action \in {"Accept", "Reject"} THEN r
    ELSE ChainLoop(rules, i + 1, r.res.val, ctx, r.st)

\* Rule::Chain: what the loop does with the result r of sub-rule i
ChainStep(rules, i, ctx, r) ==
    IF ~r.res.ok THEN r
    ELSE IF r.res.val.action \in {"Accept", "Reject"} THEN r
    ELSE ChainLoop(rules, i + 1, r.res.val, ctx, r.st)

\* Rule::Chain: the for loop from sub-rule i; `result` is the loop variable
ChainLoop(rules, i, result, ctx, st) ==
    IF i > Len(rules) THEN [res |-> Ok(result), st |-> st]
    ELSE ChainStep(rules, i, ctx, RuleEvaluate(rules[i], ctx, st))

\* Rule::Chain returning the loop's result as it is
ChainEndAsIs(loop) == loop

\* Rule::Chain: after the loop
ChainEnd(loop) ==
    IF ~loop.res.ok THEN loop
    ELSE IF loop.res.val.action = "Continue"
    THEN [res |-> Ok(RuleResult("Accept", loop.res.val.messages)), st |-> loop.st]
    ELSE loop

\* Rule::Select taking the first branch whatever its condition says
SelectStepAnyBranch(rule, i, ctx, c) ==
    IF ~c.res.ok
    THEN [res |-> Err([type |-> "ConditionError", error |-> c.res.err]), st |-> c.st]
    ELSE RuleEvaluate(rule.first_of[i].rule, ctx, c.st)

\* Rule::Select: what the loop does with the result c of branch i's condition
SelectStep(rule, i, ctx, c) ==
    IF ~c.res.ok
    THEN [res |-> Err([type |-> "ConditionError", error |-> c.res.err]), st |-> c.st]
    ELSE IF c.res.val THEN RuleEvaluate(rule.first_of[i].rule, ctx, c.st)
    ELSE SelectLoop(rule, i + 1, ctx, c.st)

\* Rule::Select: the for loop from branch i, then the default
SelectLoop(rule, i, ctx, st) ==
    IF i > Len(rule.first_of)
    THEN IF IsSome(rule.default)
         THEN RuleEvaluate(rule.default.some, ctx, st)
         ELSE [res |-> Ok(RuleResult("Reject", <<>>)), st |-> st]
    ELSE SelectStep(rule, i, ctx,
                    ConditionEvaluate(rule.first_of[i].condition, ctx, st))

\* Rule::Conditional with Continue for an absent on_failure
ConditionalOutcomeLenient(rule, c) ==
    IF ~c.res.ok
    THEN [res |-> Err([type |-> "ConditionError", error |-> c.res.err]), st |-> c.st]
    ELSE IF c.res.val
    THEN [res |-> Ok(to_rule_result(rule.on_success, "Continue")), st |-> c.st]
    ELSE [res |-> Ok(to_rule_result(rule.on_failure, "Continue")), st |-> c.st]

\* Rule::Conditional: the outcome for the condition's result c
ConditionalOutcome(rule, c) ==
    IF ~c.res.ok
    THEN [res |-> Err([type |-> "ConditionError", error |-> c.res.err]), st |-> c.st]
    ELSE IF c.res.val
    THEN [res |-> Ok(to_rule_result(rule.on_success, "Continue")), st |-> c.st]
    ELSE [res |-> Ok(to_rule_result(rule.on_failure, "Reject")), st |-> c.st]

\* Rule::Webhook accepting on success
WebhookOutcomeAccepting(st, req) ==
    IF req.res.ok
    THEN [res |-> Ok(RuleResult(IF req.res.val.success THEN "Accept" ELSE "Reject",
                                req.res.val.messages)),
          st |-> [st EXCEPT !.http = req.http]]
    ELSE [res |-> Err([type |-> "WebhookError", error |-> req.res.err]),
          st |-> [st EXCEPT !.http = req.http]]

\* Rule::Webhook: the rule result of perform_request's result
WebhookOutcome(st, req) ==
    IF req.res.ok
    THEN [res |-> Ok(RuleResult(IF req.res.val.success THEN "Continue" ELSE "Reject",
                                req.res.val.messages)),
          st |-> [st EXCEPT !.http = req.http]]
    ELSE [res |-> Err([type |-> "WebhookError", error |-> req.res.err]),
          st |-> [st EXCEPT !.http = req.http]]

\* Rule::Webhook: the request for the payload wc
WebhookRequest(rule, ctx, wc) ==
    WebhookOutcome(wc.st, perform_request(rule, <<wc.payload>>, ctx.endpoint, wc.st.http))

\* Rule::evaluate_traced
RuleEvaluateTraced(rule, ctx, st) ==
    CASE rule.type = "chain" ->
            ChainEnd(ChainLoop(rule.rules, 1, RuleResult("Reject", <<>>), ctx, st))
      [] rule.type = "select" -> SelectLoop(rule, 1, ctx, st)
      [] rule.type = "conditional" ->
            ConditionalOutcome(rule, ConditionEvaluate(rule.condition, ctx, st))
      [] rule.type = "webhook" -> WebhookRequest(rule, ctx, WebhookChange(ctx, st))
      [] rule.type = "accept" ->
            [res |-> Ok(RuleResult("Accept", rule.messages)), st |-> st]
      [] rule.type = "reject" ->
            [res |-> Ok(RuleResult("Reject", rule.messages)), st |-> st]

\* Rule::evaluate
RuleEvaluate(rule, ctx, st) ==
    RuleEvaluateTraced(rule, ctx, [st EXCEPT !.trace = Append(@, rule)])

---------------------------------------------------------------------------
(* configuration.rs: hook selection *)

\* the components of a path, root and empty components dropped
Components(path) ==
    LET parts == Split(path, "/")
    IN FilterSome([i \in 1..Len(parts) |->
                     IF parts[i] = <<>> THEN None ELSE Some(parts[i])])

\* get_absolute_program_path: Ok(components) or Err
get_absolute_program_path(args, current_dir) ==
    LET program_name == args[1] IN
    IF program_name # <<>> /\ Head(program_name) = "/"
    THEN Ok(Components(program_name))
    ELSE IF IsSome(current_dir)
    THEN Ok(Components(current_dir.some) \o Components(program_name))
    ELSE Err(<<"current_dir">>)

\* hook_by_name
hook_by_name(configuration, name) ==
    CASE name = <<"pre-receive">> ->
            IF IsSome(configuration.pre_receive)
            THEN Some([hook |-> configuration.pre_receive.some, type |-> "PreReceive"])
            ELSE None
      [] name = <<"update">> ->
            IF IsSome(configuration.update)
            THEN Some([hook |-> configuration.update.some, type |-> "Update"])
            ELSE None
      [] name = <<"post-receive">> ->
            IF IsSome(configuration.post_receive)
            THEN Some([hook |-> configuration.post_receive.some, type |-> "PostReceive"])
            ELSE None
      [] OTHER -> None

\* hook_by_executable_name
hook_by_executable_name(configuration, path) ==
    IF path # <<>> THEN hook_by_name(configuration, path[Len(path)]) ELSE None

\* hook_by_parent_dir_name
hook_by_parent_dir_name(configuration, path) ==
    IF Len(path) >= 2
    THEN hook_by_name(configuration, TrimEndMatches(path[Len(path) - 1], ".d"))
    ELSE None

\* select_hook that looks at the parent directory only when the base name is
\* none of the hook names
select_hook_by_known_name(configuration, args, current_dir) ==
    LET exe_path == get_absolute_program_path(args, current_dir) IN
    IF ~exe_path.ok THEN None
    ELSE LET by_name == hook_by_executable_name(configuration, exe_path.val)
             by_parent == hook_by_parent_dir_name(configuration, exe_path.val)
             known == exe_path.val # <<>>
                      /\ exe_path.val[Len(exe_path.val)]
                            \in {<<"pre-receive">>, <<"update">>, <<"post-receive">>}
         IN IF IsSome(by_name) THEN by_name
            ELSE IF ~known /\ IsSome(by_parent) THEN by_parent
            ELSE None

\* ConfigurationVersion1::select_hook
select_hook(configuration, args, current_dir) ==
    LET exe_path == get_absolute_program_path(args, current_dir) IN
    IF ~exe_path.ok THEN None
    ELSE LET by_name == hook_by_executable_name(configuration, exe_path.val)
             by_parent == hook_by_parent_dir_name(configuration, exe_path.val)
         IN IF IsSome(by_name) THEN by_name
            ELSE IF IsSome(by_parent) THEN by_parent
            ELSE None

---------------------------------------------------------------------------
(* main.rs: reading and resolving the changes *)

\* the closure of read_changes_from_stdin's map: Ok(ChangeLine), or Err when
\* indexing `parts` panics
ChangeLineOf(line) ==
    LET parts == Split(line, " ") IN
    IF Len(parts) < 3 THEN Err(<<"index out of bounds">>)
    ELSE Ok([old_commit |-> parts[1], new_commit |-> parts[2], ref_name |-> parts[3]])

\* read_changes_from_stdin: Ok(None), Ok(Some(changes)) or Err (a panic)
read_changes_from_stdin(lines) ==
    LET parsed == [i \in 1..Len(lines) |-> ChangeLineOf(lines[i])] IN
    IF \E i \in 1..Len(lines) : ~parsed[i].ok THEN Err(<<"index out of bounds">>)
    ELSE IF lines = <<>> THEN Ok(None)
    ELSE Ok(Some([i \in 1..Len(lines) |-> parsed[i].val]))

\* read_change_from_args
read_change_from_args(args) ==
    IF Len(args) >= 3
    THEN Some([ref_name |-> args[1], old_commit |-> args[2], new_commit |-> args[3]])
    ELSE None

\* get_changes
get_changes(type, lines, args) ==
    IF type = "Update"
    THEN LET c == read_change_from_args(args)
         IN Ok(IF IsSome(c) THEN Some(<<c.some>>) ELSE None)
    ELSE read_changes_from_stdin(lines)

\* is_hash_all_zeros with `any` for `all`
is_hash_any_zero(hash) == \E i \in 1..Len(hash) : hash[i] = "0"

\* is_hash_all_zeros
is_hash_all_zeros(hash) == \A i \in 1..Len(hash) : hash[i] = "0"

\* resolve_change taking a push for forced only when there is no merge base
resolve_change_unforced(line, branch, r) ==
    LET old_exists == ~is_hash_all_zeros(line.old_commit)
        new_exists == ~is_hash_all_zeros(line.new_commit)
        git_data(base) == [old_commit |-> line.old_commit,
                           new_commit |-> line.new_commit,
                           log_base |-> base]
    IN
    CASE old_exists /\ new_exists ->
            LET base == merge_base(r, line.old_commit, line.new_commit)
            IN [change |-> Some([type |-> "UpdateRef",
                                 name |-> line.ref_name,
                                 old_commit |-> line.old_commit,
                                 new_commit |-> line.new_commit,
                                 merge_base |-> base,
                                 force |-> ~IsSome(base),
                                 git_data |-> git_data(base)]),
                git |-> <<[cmd |-> "merge-base",
                           args |-> <<line.old_commit, line.new_commit>>]>>]
      [] old_exists /\ ~new_exists ->
            [change |-> Some([type |-> "RemoveRef",
                              name |-> line.ref_name,
                              commit |-> line.old_commit]),
             git |-> <<>>]
      [] ~old_exists /\ new_exists ->
            LET base == merge_base(r, branch, line.new_commit)
            IN [change |-> Some([type |-> "AddRef",
                                 name |-> line.ref_name,
                                 commit |-> line.new_commit,
                                 git_data |-> git_data(base)]),
                git |-> <<[cmd |-> "merge-base",
                           args |-> <<branch, line.new_commit>>]>>]
      [] ~old_exists /\ ~new_exists ->
            [change |-> None, git |-> <<>>]

\* resolve_change: the change, if any, and the git subprocesses it started
resolve_change(line, branch, r) ==
    LET old_exists == ~is_hash_all_zeros(line.old_commit)
        new_exists == ~is_hash_all_zeros(line.new_commit)
        git_data(base) == [old_commit |-> line.old_commit,
                           new_commit |-> line.new_commit,
                           log_base |-> base]
    IN
    CASE old_exists /\ new_exists ->
            LET base == merge_base(r, line.old_commit, line.new_commit)
            IN [change |-> Some([type |-> "UpdateRef",
                                 name |-> line.ref_name,
                                 old_commit |-> line.old_commit,
                                 new_commit |-> line.new_commit,
                                 merge_base |-> base,
                                 force |-> IF IsSome(base)
                                           THEN base.some # line.old_commit
                                           ELSE TRUE,
                                 git_data |-> git_data(base)]),
                git |-> <<[cmd |-> "merge-base",
                           args |-> <<line.old_commit, line.new_commit>>]>>]
      [] old_exists /\ ~new_exists ->
            [change |-> Some([type |-> "RemoveRef",
                              name |-> line.ref_name,
                              commit |-> line.old_commit]),
             git |-> <<>>]
      [] ~old_exists /\ new_exists ->
            LET base == merge_base(r, branch, line.new_commit)
            IN [change |-> Some([type |-> "AddRef",
                                 name |-> line.ref_name,
                                 commit |-> line.new_commit,
                                 git_data |-> git_data(base)]),
                git |-> <<[cmd |-> "merge-base",
                           args |-> <<branch, line.new_commit>>]>>]
      [] ~old_exists /\ ~new_exists ->
            [change |-> None, git |-> <<>>]

\* get_push_options
get_push_options(count, option) ==
    LET option_count == IF IsSome(count) /\ count.some.digits
                        THEN count.some.value ELSE 0
    IN FilterSome([i \in 1..option_count |->
                     IF (i - 1) \in DOMAIN option THEN option[i - 1] ELSE None])

---------------------------------------------------------------------------
(* main.rs: main() *)

\* load_config_from_default_branch: the files tried, in order
ConfigFiles == <<<<"hooks.yaml">>, <<"hooks.yml">>, <<"hooks.toml">>>>

\* load_config: Ok(Some(configuration)), Ok(None) or Err(message)
load_config(content) ==
    CASE content.kind = "absent" -> Ok(None)
      [] content.kind = "io_error" -> Err(<<"io error">>)
      [] content.kind = "invalid_utf8" -> Err(<<"invalid utf-8: ">>)
      [] content.kind = "text" ->
            LET parsed == ParseConfiguration(content.text)
            IN IF parsed.ok THEN Ok(Some(parsed.val)) ELSE Err(parsed.err)

\* attempt_bypass taking any push option for the bypass option
attempt_bypass_any_option(options, bypass) ==
    IsSome(bypass) /\ options # <<>>

\* attempt_bypass: TRUE iff the process exits here
attempt_bypass(options, bypass) ==
    IsSome(bypass) /\ Contains(options, bypass.some.push_option)

\* std::process::exit(code), having printed `out` and `err`
Exit(code, out, err) ==
    /\ pc' = "exited"
    /\ exit_code' = Some(code)
    /\ stdout' = stdout \o out
    /\ stderr' = stderr \o err

Goto(label) ==
    /\ pc' = label
    /\ UNCHANGED <<exit_code, stdout, stderr>>

\* main: get_default_branch()
GetDefaultBranch ==
    /\ pc = "get_default_branch"
    /\ git' = Append(git, [cmd |-> "rev-parse", args |-> <<<<"HEAD">>>>])
    /\ IF IsSome(head)
       THEN /\ default_branch' = head.some
            /\ Goto("load_config")
       ELSE /\ Exit(0, <<>>, <<>>)
            /\ UNCHANGED default_branch
    /\ UNCHANGED <<inputs, parser, http, load_idx, config, loaded_from, push_options,
                   hook, hook_type, changes, resolved_changes, next_line,
                   next_change, evaluations>>

\* load_config_from_default_branch: one load_config call, and what main does
\* with the result when it is the last one
LoadConfig ==
    /\ pc = "load_config"
    /\ LET name == ConfigFiles[load_idx]
           result == load_config(files[name])
       IN /\ git' = Append(git, [cmd |-> "show", args |-> <<<<"HEAD:">> \o name>>])
          /\ IF ~result.ok
             THEN /\ Exit(0, <<>>,
                          <<<<"Failed to parse hook configuration: ">> \o result.err>>)
                  /\ UNCHANGED <<load_idx, config, loaded_from>>
             ELSE IF IsSome(result.val)
             THEN /\ config' = result.val.some
                  /\ loaded_from' = Some(name)
                  /\ Goto("attempt_bypass")
                  /\ UNCHANGED load_idx
             ELSE IF load_idx < Len(ConfigFiles)
             THEN /\ load_idx' = load_idx + 1
                  /\ Goto("load_config")
                  /\ UNCHANGED <<config, loaded_from>>
             ELSE /\ Exit(0, <<>>, <<>>)
                  /\ UNCHANGED <<load_idx, config, loaded_from>>
    /\ UNCHANGED <<inputs, parser, http, default_branch, push_options, hook, hook_type,
                   changes, resolved_changes, next_line, next_change, evaluations>>

\* main: get_push_options() and attempt_bypass()
AttemptBypass ==
    /\ pc = "attempt_bypass"
    /\ push_options' = get_push_options(env_count, env_option)
    /\ IF attempt_bypass(push_options', config.bypass)
       THEN Exit(0, UnwrapOr(config.bypass.some.messages, <<>>), <<>>)
       ELSE Goto("select_hook")
    /\ UNCHANGED <<inputs, parser, git, http, default_branch, load_idx, config, loaded_from,
                   hook, hook_type, changes, resolved_changes, next_line,
                   next_change, evaluations>>

\* main: config.select_hook()
SelectHook ==
    /\ pc = "select_hook"
    /\ LET selected == select_hook(config, argv, cwd)
       IN IF IsSome(selected)
          THEN /\ hook' = Some(selected.some.hook)
               /\ hook_type' = Some(selected.some.type)
               /\ Goto("get_changes")
          ELSE /\ Exit(0, <<>>, <<>>)
               /\ UNCHANGED <<hook, hook_type>>
    /\ UNCHANGED <<inputs, parser, git, http, default_branch, load_idx, config, loaded_from,
                   push_options, changes, resolved_changes, next_line,
                   next_change, evaluations>>

\* main: get_changes(hook_type)
GetChanges ==
    /\ pc = "get_changes"
    /\ LET read == get_changes(hook_type.some, stdin, argv)
       IN IF ~read.ok
          THEN \* a panic: the runtime prints the message and exits with 101
               /\ Exit(101, <<>>, <<<<"thread 'main' panicked: ">> \o read.err>>)
               /\ UNCHANGED changes
          ELSE IF IsSome(read.val)
          THEN /\ changes' = read.val.some
               /\ Goto("resolve_changes")
          ELSE /\ Exit(0, <<>>, <<>>)
               /\ UNCHANGED changes
    /\ UNCHANGED <<inputs, parser, git, http, default_branch, load_idx, config, loaded_from,
                   push_options, hook, hook_type, resolved_changes, next_line,
                   next_change, evaluations>>

\* resolve_changes: resolve_change for the next line
ResolveChange ==
    /\ pc = "resolve_changes"
    /\ LET resolved == resolve_change(changes[next_line], default_branch, repo)
       IN /\ git' = git \o resolved.git
          /\ resolved_changes' = IF IsSome(resolved.change)
                                 THEN Append(resolved_changes, resolved.change.some)
                                 ELSE resolved_changes
    /\ next_line' = next_line + 1
    /\ IF next_line < Len(changes) THEN Goto("resolve_changes") ELSE Goto("evaluate")
    /\ UNCHANGED <<inputs, parser, http, default_branch, load_idx, config, loaded_from,
                   push_options, hook, hook_type, changes, next_change, evaluations>>

\* accept: what the process prints, and its exit status
accept(messages) == [code |-> 0, out |-> messages, err |-> <<>>]

\* reject: what the process prints, and its exit status
reject(messages) == [code |-> 1, out |-> <<>>, err |-> messages]

\* Outcome with Continue treated as Reject
OutcomeContinueRejects(res, reject_on_error) ==
    IF res.ok
    THEN CASE res.val.action = "Accept" -> accept(res.val.messages)
           [] res.val.action = "Continue" -> reject(res.val.messages)
           [] res.val.action = "Reject" -> reject(res.val.messages)
    ELSE IF UnwrapOr(reject_on_error, TRUE)
         THEN reject(<<<<"change rejected, evaluation failed: ">> \o Display(res.err)>>)
         ELSE accept(<<<<"change accepted, but evaluation failed: ">>
                       \o Display(res.err)>>)

\* Outcome with an unset reject-on-error read as false
OutcomeErrorsAccepted(res, reject_on_error) ==
    IF res.ok
    THEN CASE res.val.action = "Accept" -> accept(res.val.messages)
           [] res.val.action = "Continue" -> accept(res.val.messages)
           [] res.val.action = "Reject" -> reject(res.val.messages)
    ELSE IF UnwrapOr(reject_on_error, FALSE)
         THEN reject(<<<<"change rejected, evaluation failed: ">> \o Display(res.err)>>)
         ELSE accept(<<<<"change accepted, but evaluation failed: ">>
                       \o Display(res.err)>>)

\* main: the match on the result of hook.rule.evaluate
Outcome(res, reject_on_error) ==
    IF res.ok
    THEN CASE res.val.action = "Accept" -> accept(res.val.messages)
           [] res.val.action = "Continue" -> accept(res.val.messages)
           [] res.val.action = "Reject" -> reject(res.val.messages)
    ELSE IF UnwrapOr(reject_on_error, TRUE)
         THEN reject(<<<<"change rejected, evaluation failed: ">> \o Display(res.err)>>)
         ELSE accept(<<<<"change accepted, but evaluation failed: ">>
                       \o Display(res.err)>>)

\* main: the RuleContext of a change
RuleContext(change) ==
    [default_branch |-> default_branch,
     push_options |-> push_options,
     change |-> change,
     config |-> config,
     repo |-> repo,
     endpoint |-> endpoint]

\* the evaluation state at the start of a change's evaluation: its lazy
\* cells are empty
FreshState ==
    [git |-> git, http |-> http, out |-> <<>>, trace |-> <<>>,
     log |-> None, patch |-> None, file_status |-> None]

\* main: the body of the for loop for the evaluation r of the change
EvaluateBody(r) ==
    /\ git' = r.st.git
    /\ http' = r.st.http
    /\ evaluations' = Append(evaluations,
                             [index |-> next_change, res |-> r.res,
                              trace |-> r.st.trace, out |-> r.st.out])
    /\ Exit(Outcome(r.res, hook.some.reject_on_error).code,
            r.st.out \o Outcome(r.res, hook.some.reject_on_error).out,
            Outcome(r.res, hook.some.reject_on_error).err)

\* main: one iteration of the for loop over resolved_changes, or the return
\* from main when the loop is over
Evaluate ==
    /\ pc = "evaluate"
    /\ IF next_change > Len(resolved_changes)
       THEN /\ Exit(0, <<>>, <<>>)
            /\ UNCHANGED <<git, http, evaluations>>
       ELSE EvaluateBody(RuleEvaluate(hook.some.rule,
                                      RuleContext(resolved_changes[next_change]),
                                      FreshState))
    /\ UNCHANGED <<inputs, parser, default_branch, load_idx, config, loaded_from,
                   push_options, hook, hook_type, changes, resolved_changes,
                   next_line, next_change>>

Next ==
    \/ GetDefaultBranch
    \/ LoadConfig
    \/ AttemptBypass
    \/ SelectHook
    \/ GetChanges
    \/ ResolveChange
    \/ Evaluate

---------------------------------------------------------------------------
(* git.rs, step by step: git_log's parse_log and diff_name_status's         *)
(* parse_name_status over the lines of a subprocess's output.  In main()'s *)
(* steps above, a git call is one step and gives the parsed value.         *)

\* parse_log: one iteration of the loop, that is one parse_log_entry call
ParseLogEntry ==
    /\ parsing = "log"
    /\ \E r \in {parse_log_entry(unread)} :
          /\ unread' = r.rest
          /\ IF r.panic
             THEN /\ parsing' = "panicked"
                  /\ Exit(101, r.printed,
                          <<<<"thread 'main' panicked: ", "byte index out of range">>>>)
                  /\ UNCHANGED output
             ELSE /\ stdout' = stdout \o r.printed
                  /\ UNCHANGED <<pc, exit_code, stderr>>
                  /\ IF ~r.res.ok THEN UNCHANGED <<parsing, output>>
                     ELSE IF IsSome(r.res.val)
                     THEN /\ output' = Append(output, r.res.val.some)
                          /\ UNCHANGED parsing
                     ELSE /\ parsing' = "done"
                          /\ UNCHANGED output
    /\ UNCHANGED <<inputs, git, http, locals>>

\* parse_name_status: filter_map's closure on the next line, or the end of
\* the lines
ParseNameStatusLine ==
    /\ parsing = "name_status"
    /\ IF unread = <<>>
       THEN /\ parsing' = "done"
            /\ UNCHANGED <<unread, output>>
       ELSE /\ unread' = Tail(unread)
            /\ output' = IF IsSome(NameStatusOfLine(Head(unread)))
                         THEN Append(output, NameStatusOfLine(Head(unread)).some)
                         ELSE output
            /\ UNCHANGED parsing
    /\ UNCHANGED <<inputs, pc, exit_code, stdout, stderr, git, http, locals>>

NextGit ==
    \/ ParseLogEntry
    \/ ParseNameStatusLine

---------------------------------------------------------------------------
(* The inputs the model is checked on *)

MaxLines == 2
MaxPushOptions == 2

RefMain == <<"refs/heads/", "main">>
RefRelease == <<"refs/heads/", "release/", "1.2">>
RefTag == <<"refs/tags/", "v1">>

Sp == <<" ">>

\* stdin lines `<old> <new> <ref>`; the last one is not a change line
Lines == {HashA \o Sp \o HashB \o Sp \o RefMain,
          HashA \o Sp \o HashB \o Sp \o RefRelease,
          ZeroHash \o Sp \o HashB \o Sp \o RefTag,
          HashA \o Sp \o ZeroHash \o Sp \o RefRelease,
          ZeroHash \o Sp \o ZeroHash \o Sp \o RefMain,
          HashA \o Sp \o HashB}

RECURSIVE SeqsUpTo(_, _)
\* the sequences over S of length at most n
SeqsUpTo(S, n) ==
    IF n = 0 THEN {<<>>}
    ELSE LET shorter == SeqsUpTo(S, n - 1)
         IN shorter \cup {Append(q, x) : q \in {t \in shorter : Len(t) = n - 1}, x \in S}

Msg(t) == <<t>>

Accept(messages) == [type |-> "accept", messages |-> messages]

Reject(messages) == [type |-> "reject", messages |-> messages]

Conditional(condition, on_success, on_failure) ==
    [type |-> "conditional", condition |-> condition,
     on_success |-> on_success, on_failure |-> on_failure]

Webhook(connect_timeout, request_timeout) ==
    [type |-> "webhook", url |-> <<"http://stub/v">>,
     connect_timeout |-> connect_timeout, request_timeout |-> request_timeout,
     greeting_messages |-> None]

ReleasePattern == <<"^", "refs/heads/", "release/", ".*", "$">>

\* S2 of the specification: release branches are protected
RuleProtectRelease ==
    [type |-> "select",
     first_of |-> <<[condition |-> [type |-> "ref-matches", pattern |-> ReleasePattern],
                     rule |-> Reject(<<Msg("release branches are protected")>>)]>>,
     default |-> Some(Accept(<<>>))]

\* removes are rejected, adds accepted, updates must be fast-forward
RuleByKind ==
    [type |-> "select",
     first_of |-> <<[condition |-> [type |-> "ref-remove"],
                     rule |-> Reject(<<Msg("no deletes"), Msg("ask an admin")>>)],
                    [condition |-> [type |-> "ref-add"],
                     rule |-> Accept(<<Msg("welcome"), Msg("new ref")>>)]>>,
     default |-> Some(Conditional([type |-> "linear-history"],
                                  Some([action |-> "Continue",
                                        messages |-> <<Msg("fast-forward")>>]),
                                  Some([action |-> "Reject",
                                        messages |-> <<Msg("no force push")>>])))]

\* reads the commit log
RuleFixCommit ==
    Conditional([type |-> "any-commit-message-matches", pattern |-> <<"fix">>,
                 accept_removes |-> None],
                Some([action |-> "Accept", messages |-> <<Msg("has fix")>>]),
                None)

\* asks the webhook unless the ref is the main branch
RuleChainWebhook ==
    [type |-> "chain",
     rules |-> <<Conditional([type |-> "not",
                              condition |-> [type |-> "ref-is", name |-> RefMain]],
                             None,
                             Some([action |-> "Accept", messages |-> <<Msg("main")>>])),
                 Webhook(None, None)>>]

\* a webhook whose connect timeout is out of bounds
RuleWebhookSlow == Webhook(Some(MAX_CONNECT_TIMEOUT + 1), None)

\* a condition that embeds a webhook rule
RuleEmbedded ==
    Conditional([type |-> "rule", rule |-> Webhook(None, Some(100))], None, None)

Rules == {Accept(<<Msg("ok")>>), RuleProtectRelease, RuleByKind, RuleFixCommit,
          RuleChainWebhook, RuleWebhookSlow, RuleEmbedded}

RECURSIVE HasWebhook(_), ConditionHasWebhook(_)
HasWebhook(r) ==
    CASE r.type = "webhook" -> TRUE
      [] r.type = "chain" -> \E i \in 1..Len(r.rules) : HasWebhook(r.rules[i])
      [] r.type = "select" ->
            \/ \E i \in 1..Len(r.first_of) :
                  HasWebhook(r.first_of[i].rule)
                  \/ ConditionHasWebhook(r.first_of[i].condition)
            \/ (IsSome(r.default) /\ HasWebhook(r.default.some))
      [] r.type = "conditional" -> ConditionHasWebhook(r.condition)
      [] OTHER -> FALSE

ConditionHasWebhook(c) ==
    CASE c.type = "rule" -> HasWebhook(c.rule)
      [] c.type = "not" -> ConditionHasWebhook(c.condition)
      [] c.type \in {"and", "or", "xor"} ->
            \E i \in 1..Len(c.conditions) : ConditionHasWebhook(c.conditions[i])
      [] OTHER -> FALSE

\* what the endpoint does: answer with a status and a body (None: a body
\* that does not decode), or fail in transport
Endpoints == {[kind |-> "response", status |-> 200, body |-> Some(<<Msg("hi")>>)],
              [kind |-> "response", status |-> 403, body |-> Some(<<Msg("nope")>>)],
              [kind |-> "response", status |-> 204, body |-> None],
              [kind |-> "error"]}

Hook(rule, reject_on_error) == [rule |-> rule, reject_on_error |-> reject_on_error]

Bypass(messages) == [push_option |-> <<"skip-hooks">>, messages |-> messages]

Document(pre_receive, update, post_receive, bypass) ==
    [well_formed |-> TRUE, version |-> <<"1">>,
     pre_receive |-> pre_receive, update |-> update,
     post_receive |-> post_receive, bypass |-> bypass]

Absent == [kind |-> "absent"]

Text(document) == [kind |-> "text", text |-> document]

AllFiles == {<<"hooks.json">>, <<"hooks.yaml">>, <<"hooks.yml">>, <<"hooks.toml">>}

\* a repository whose only configuration file is `name`
OnlyFile(name, content) == [f \in AllFiles |-> IF f = name THEN content ELSE Absent]

NoOptions == [i \in 0..(MaxPushOptions - 1) |-> None]

GitlabVariables == {"GL_ID", "GL_PROJECT_PATH", "GL_PROTOCOL", "GL_REPOSITORY",
                    "GL_USERNAME"}

\* no GitLab variable is set
NoGitlab == [v \in GitlabVariables |-> None]

\* the state of the process when main() starts
Started ==
    /\ pc = "get_default_branch"
    /\ exit_code = None
    /\ stdout = <<>>
    /\ stderr = <<>>
    /\ git = <<>>
    /\ http = <<>>
    /\ default_branch = <<>>
    /\ load_idx = 1
    /\ config = None
    /\ loaded_from = None
    /\ push_options = <<>>
    /\ hook = None
    /\ hook_type = None
    /\ changes = <<>>
    /\ resolved_changes = <<>>
    /\ next_line = 1
    /\ next_change = 1
    /\ evaluations = <<>>

\* ... and no git output is being parsed step by step
Start ==
    /\ Started
    /\ git_output = <<>>
    /\ parsing = "idle"
    /\ unread = <<>>
    /\ output = <<>>

\* a pre-receive invocation: every rule, on every input of at most MaxLines
\* lines
Init ==
    /\ head = Some(Main)
    /\ \E rule \in Rules, roe \in {None, Some(TRUE), Some(FALSE)} :
          files = OnlyFile(<<"hooks.yaml">>,
                           Text(Document(Some(Hook(rule, roe)), None, None,
                                         Some(Bypass(None)))))
    /\ argv = <<<<"/", "hooks", "/", "pre-receive">>>>
    /\ cwd = Some(<<"/", "repo">>)
    /\ env_count = None
    /\ env_option = NoOptions
    /\ stdin \in SeqsUpTo(Lines, MaxLines)
    /\ repo \in Repos
    /\ endpoint \in Endpoints
    /\ (files[<<"hooks.yaml">>].text.pre_receive.some.rule \in
           {r \in Rules : ~HasWebhook(r)}
        => endpoint = [kind |-> "error"])
    /\ gl_env = NoGitlab
    /\ Start

Spec == Init /\ [][Next]_vars

---------------------------------------------------------------------------
(* Invocations with push options and a bypass *)

SkipHooks == <<"skip-hooks">>

\* the text of GIT_PUSH_OPTION_COUNT: a decimal number, or not a number
CountTexts ==
    {[digits |-> TRUE, value |-> n] : n \in 0..MaxPushOptions}
    \cup {[digits |-> FALSE]}

InitBypass ==
    /\ head = Some(Main)
    /\ \E rule \in {RuleFixCommit, RuleByKind},
          bypass \in {None, Some(Bypass(None)), Some(Bypass(Some(<<Msg("bypassed")>>)))} :
          files = OnlyFile(<<"hooks.yaml">>,
                           Text(Document(Some(Hook(rule, None)), None, None, bypass)))
    /\ argv = <<<<"/", "hooks", "/", "pre-receive">>>>
    /\ cwd = Some(<<"/", "repo">>)
    /\ env_count \in {None} \cup {Some(t) : t \in CountTexts}
    /\ env_option \in [0..(MaxPushOptions - 1) ->
                          {None, Some(SkipHooks), Some(<<"ci.skip">>)}]
    /\ stdin \in {<<HashA \o Sp \o HashB \o Sp \o RefMain>>,
                  <<ZeroHash \o Sp \o HashB \o Sp \o RefTag>>}
    /\ repo = "linear"
    /\ endpoint = [kind |-> "error"]
    /\ gl_env = NoGitlab
    /\ Start

SpecBypass == InitBypass /\ [][Next]_vars

---------------------------------------------------------------------------
(* Repositories with every combination of configuration files *)

DocAccept == Document(Some(Hook(Accept(<<Msg("ok")>>), None)), None, None, None)

DocReject == Document(Some(Hook(Reject(<<Msg("no")>>), None)), None, None, None)

\* not well-formed in its format
DocSyntax == [DocAccept EXCEPT !.well_formed = FALSE]

\* a ref-matches condition whose pattern is the empty string
DocEmptyPattern ==
    Document(Some(Hook(Conditional([type |-> "ref-matches", pattern |-> <<>>],
                                   None, None), None)),
             None, None, None)

\* a pattern that is no regular expression, deep in the tree
DocBadRegex ==
    Document(Some(Hook([type |-> "chain",
                        rules |-> <<Conditional(
                                      [type |-> "and",
                                       conditions |-> <<[type |-> "true"],
                                                        [type |-> "any-commit-message-matches",
                                                         pattern |-> <<"(", "fix">>,
                                                         accept_removes |-> None]>>],
                                      None, None)>>],
                       None)),
             None, None, None)

BrokenDocuments == {DocSyntax, DocEmptyPattern, DocBadRegex}

Contents ==
    {Absent, [kind |-> "io_error"], [kind |-> "invalid_utf8"]}
    \cup {Text(d) : d \in {DocAccept, DocReject} \cup BrokenDocuments}

InitLoad ==
    /\ head \in {None, Some(Main)}
    /\ files \in [AllFiles -> Contents]
    /\ argv = <<<<"/", "hooks", "/", "pre-receive">>>>
    /\ cwd = Some(<<"/", "repo">>)
    /\ env_count = None
    /\ env_option = NoOptions
    /\ stdin = <<HashA \o Sp \o HashB \o Sp \o RefMain>>
    /\ repo = "linear"
    /\ endpoint = [kind |-> "error"]
    /\ gl_env = NoGitlab
    /\ Start

SpecLoad == InitLoad /\ [][Next]_vars

---------------------------------------------------------------------------
(* Invocations under every program path, for every set of configured hooks *)

ProgramNames ==
    {<<"/", "hooks", "/", "pre-receive">>,
     <<"/", "hooks", "/", "update">>,
     <<"/", "hooks", "/", "post-receive">>,
     <<"/", "hooks", "/", "pre-receive", ".d", "/", "check">>,
     <<"/", "hooks", "/", "update", ".d", "/", "check">>,
     <<"/", "hooks", "/", "pre-receive", ".d", "/", "update">>,
     <<"/", "hooks", "/", "post-receive", ".d", ".d", "/", "check">>,
     <<"/", "hooks", "/", "update", "/", "check">>,
     <<"/", "hooks", "/", "hooks", ".d", "/", "check">>,
     <<"/", "update">>,
     <<"hooks", "/", "post-receive">>,
     <<"check">>}

\* the arguments after the program name
Arguments ==
    {<<>>,
     <<RefMain, HashA>>,
     <<RefMain, HashA, HashB>>,
     <<RefTag, ZeroHash, HashB>>,
     <<RefRelease, HashA, ZeroHash>>}

InitSelect ==
    /\ head = Some(Main)
    /\ \E pre \in {None, Some(Hook(RuleByKind, None))},
          upd \in {None, Some(Hook(RuleProtectRelease, None))},
          post \in {None, Some(Hook(Accept(<<Msg("thanks")>>), None))} :
          files = OnlyFile(<<"hooks.yaml">>, Text(Document(pre, upd, post, None)))
    /\ \E name \in ProgramNames, args \in Arguments : argv = <<name>> \o args
    /\ cwd \in {None, Some(<<"/", "repo">>), Some(<<"/", "repo", "/", "update", ".d">>)}
    /\ env_count = None
    /\ env_option = NoOptions
    /\ stdin \in {<<>>, <<HashA \o Sp \o HashB \o Sp \o RefRelease>>}
    /\ repo = "linear"
    /\ endpoint = [kind |-> "error"]
    /\ gl_env = NoGitlab
    /\ Start

SpecSelect == InitSelect /\ [][Next]_vars

---------------------------------------------------------------------------
(* Invocations whose rule is one condition: the rule continues when the     *)
(* condition is true and rejects when it is false                           *)

MaxChildren == 3

True == [type |-> "true"]

False == [type |-> "false"]

\* reads the commit log
ReadsLog ==
    [type |-> "any-commit-message-matches", pattern |-> <<"fix">>,
     accept_removes |-> None]

\* sends a webhook request
AsksWebhook == [type |-> "rule", rule |-> Webhook(None, None)]

Children == {True, False, ReadsLog, AsksWebhook}

ChildLists == SeqsUpTo(Children, MaxChildren) \ {<<>>}

Composites ==
    {[type |-> t, conditions |-> cs] : t \in {"and", "or", "xor"}, cs \in ChildLists}

EmbeddedRules ==
    {[type |-> "rule", rule |-> r] :
        r \in {Accept(<<Msg("fine")>>), Reject(<<Msg("never")>>),
               Conditional(True, None, None), Webhook(None, None)}}

KeyLists == {None, Some(<<<<"ABCD">>>>), Some(<<<<"EF01">>, <<"ABCD">>>>),
             Some(<<<<"EF01">>>>)}

SignedConditions ==
    {[type |-> "all-commits-signed", allowed_key_ids |-> k] : k \in KeyLists}

Flags == {None, Some(TRUE), Some(FALSE)}

FactConditions ==
    {[type |-> "derived-from-default-branch", accept_removes |-> f] : f \in Flags}
    \cup {[type |-> "derived-from-branch", name |-> Main, accept_removes |-> f] :
             f \in Flags}
    \cup {[type |-> t, pattern |-> <<"main.rs">>, accept_removes |-> f] :
             t \in {"any-commit-message-matches", "modified-file-matches",
                    "added-file-matches", "removed-file-matches"},
             f \in Flags}

\* patterns that match a part of a ref name, a commit message or a path, and
\* patterns that match all of it
MatchConditions ==
    {[type |-> "ref-matches", pattern |-> p] :
        p \in {<<"release/">>, <<"refs/heads/", "main">>, <<"refs/heads/">>,
               <<"refs/heads/", ".*">>, ReleasePattern}}
    \cup {[type |-> "any-commit-message-matches", pattern |-> p,
           accept_removes |-> None] : p \in {<<"fix">>, <<"wip">>, <<" typo">>}}
    \cup {[type |-> t, pattern |-> p, accept_removes |-> None] :
             t \in {"modified-file-matches", "added-file-matches",
                    "removed-file-matches"},
             p \in {<<"src/">>, <<"old.txt">>, <<"docs/", "new.md">>}}

Conditions ==
    Composites \cup EmbeddedRules \cup SignedConditions \cup FactConditions
    \cup MatchConditions \cup {[type |-> "linear-history"]}

ChangeLines == {HashA \o Sp \o HashB \o Sp \o RefMain,
                HashA \o Sp \o HashB \o Sp \o RefRelease,
                ZeroHash \o Sp \o HashB \o Sp \o RefTag,
                HashA \o Sp \o ZeroHash \o Sp \o RefRelease}

InitConditions ==
    /\ head = Some(Main)
    /\ \E c \in Conditions :
          /\ files = OnlyFile(<<"hooks.yaml">>,
                              Text(Document(Some(Hook(Conditional(c, None, None), None)),
                                            None, None, None)))
          /\ endpoint \in IF ConditionHasWebhook(c)
                          THEN {e \in Endpoints : e.kind = "error" \/ e.status # 204}
                          ELSE {[kind |-> "error"]}
    /\ argv = <<<<"/", "hooks", "/", "pre-receive">>>>
    /\ cwd = Some(<<"/", "repo">>)
    /\ env_count = None
    /\ env_option = NoOptions
    /\ \E line \in ChangeLines : stdin = <<line>>
    /\ repo \in Repos
    /\ gl_env = NoGitlab
    /\ Start

SpecConditions == InitConditions /\ [][Next]_vars

---------------------------------------------------------------------------
(* Invocations whose rule is a chain, a select or a conditional *)

MaxRules == 3

MaxBranches == 2

Continues(messages) ==
    Conditional(True, Some([action |-> "Continue", messages |-> messages]), None)

SubRules == {Accept(<<Msg("a")>>), Reject(<<Msg("r")>>), Continues(<<Msg("c")>>),
             Conditional(True, None, None), Webhook(None, None)}

ChainRules == {[type |-> "chain", rules |-> rs] : rs \in SeqsUpTo(SubRules, MaxRules) \ {<<>>}}

Branches ==
    {[condition |-> c, rule |-> r] :
        c \in Children, r \in {Accept(<<Msg("a")>>), Webhook(None, None)}}

SelectRules ==
    {[type |-> "select", first_of |-> bs, default |-> d] :
        bs \in SeqsUpTo(Branches, MaxBranches),
        d \in {None, Some(Reject(<<Msg("d")>>)), Some(Continues(<<Msg("c")>>))}}

Completions ==
    {None,
     Some([action |-> "Accept", messages |-> <<Msg("yes"), Msg("go on")>>]),
     Some([action |-> "Continue", messages |-> <<>>]),
     Some([action |-> "Reject", messages |-> <<Msg("no")>>])}

ConditionalRules ==
    {Conditional(c, s, f) :
        c \in Children \cup {[type |-> "ref-add"]}, s \in Completions, f \in Completions}

CompositeRules == ChainRules \cup SelectRules \cup ConditionalRules

InitRules ==
    /\ head = Some(Main)
    /\ \E rule \in CompositeRules :
          /\ files = OnlyFile(<<"hooks.yaml">>,
                              Text(Document(Some(Hook(rule, None)), None, None, None)))
          /\ endpoint \in IF HasWebhook(rule)
                          THEN {e \in Endpoints : e.kind = "error" \/ e.status # 204}
                          ELSE {[kind |-> "error"]}
    /\ argv = <<<<"/", "hooks", "/", "pre-receive">>>>
    /\ cwd = Some(<<"/", "repo">>)
    /\ env_count = None
    /\ env_option = NoOptions
    /\ \E line \in {HashA \o Sp \o HashB \o Sp \o RefMain,
                    ZeroHash \o Sp \o HashB \o Sp \o RefTag,
                    HashA \o Sp \o ZeroHash \o Sp \o RefRelease} : stdin = <<line>>
    /\ repo \in {"linear", "unrelated"}
    /\ gl_env = NoGitlab
    /\ Start

SpecRules == InitRules /\ [][Next]_vars

---------------------------------------------------------------------------
(* Invocations whose rule is one composite condition over children that     *)
(* read the change's facts                                                  *)

MaxReaders == 2

\* reads the changed files
ReadsModified ==
    [type |-> "modified-file-matches", pattern |-> <<"src/">>, accept_removes |-> None]

ReadsAdded ==
    [type |-> "added-file-matches", pattern |-> <<"old.txt">>, accept_removes |-> None]

\* reads the commit log
ReadsSignatures == [type |-> "all-commits-signed", allowed_key_ids |-> None]

Readers == {ReadsLog, ReadsSignatures, ReadsModified, ReadsAdded, AsksWebhook,
            [type |-> "ref-update"]}

ReaderLists == SeqsUpTo(Readers, MaxReaders) \ {<<>>}

FactComposites ==
    {[type |-> t, conditions |-> cs] : t \in {"and", "or", "xor"}, cs \in ReaderLists}

InitFacts ==
    /\ head = Some(Main)
    /\ \E c \in FactComposites :
          /\ files = OnlyFile(<<"hooks.yaml">>,
                              Text(Document(Some(Hook(Conditional(c, None, None), None)),
                                            None, None, None)))
          /\ endpoint \in IF ConditionHasWebhook(c)
                          THEN {e \in Endpoints : e.kind = "error" \/ e.status # 204}
                          ELSE {[kind |-> "error"]}
    /\ argv = <<<<"/", "hooks", "/", "pre-receive">>>>
    /\ cwd = Some(<<"/", "repo">>)
    /\ env_count = None
    /\ env_option = NoOptions
    /\ \E line \in ChangeLines : stdin = <<line>>
    /\ repo \in Repos
    /\ gl_env = NoGitlab
    /\ Start

SpecFacts == InitFacts /\ [][Next]_vars

---------------------------------------------------------------------------
(* Invocations whose rule is one webhook *)

WebhookWith(connect_timeout, request_timeout, greeting_messages) ==
    [Webhook(connect_timeout, request_timeout)
        EXCEPT !.greeting_messages = greeting_messages]

ConnectTimeouts ==
    {None, Some(MAX_CONNECT_TIMEOUT), Some(MAX_CONNECT_TIMEOUT + 1),
     Some(MAX_REQUEST_TIMEOUT + 1)}

RequestTimeouts == {None, Some(MAX_REQUEST_TIMEOUT), Some(MAX_REQUEST_TIMEOUT + 1)}

Greetings == {None, Some(<<Msg("contacting"), Msg("the server")>>)}

WebhookRules ==
    {WebhookWith(c, r, g) : c \in ConnectTimeouts, r \in RequestTimeouts, g \in Greetings}

\* answers of every class of status, with a body that decodes to a list, to
\* the empty list or not at all, and a transport failure
Responses ==
    {[kind |-> "response", status |-> code, body |-> b] :
        code \in {199, 200, 299, 300, 403},
        b \in {Some(<<Msg("hi"), Msg("there")>>), Some(<<>>), None}}
    \cup {[kind |-> "error"]}

InitWebhook ==
    /\ head = Some(Main)
    /\ \E rule \in WebhookRules :
          files = OnlyFile(<<"hooks.yaml">>,
                           Text(Document(Some(Hook(rule, None)), None, None, None)))
    /\ endpoint \in Responses
    /\ argv = <<<<"/", "hooks", "/", "pre-receive">>>>
    /\ cwd = Some(<<"/", "repo">>)
    /\ env_count = None
    /\ env_option = NoOptions
    /\ \E line \in {HashA \o Sp \o HashB \o Sp \o RefMain,
                    ZeroHash \o Sp \o HashB \o Sp \o RefTag,
                    HashA \o Sp \o ZeroHash \o Sp \o RefRelease} : stdin = <<line>>
    /\ repo = "linear"
    /\ gl_env = NoGitlab
    /\ Start

SpecWebhook == InitWebhook /\ [][Next]_vars

---------------------------------------------------------------------------
(* Invocations under GitLab: every setting of the GL_* variables *)

GitlabValues ==
    [GL_ID |-> {None, Some(<<"user-", "12">>), Some(<<"key-", "7">>), Some(<<"12">>),
                Some(<<"user-", "x">>), Some(<<"admin-", "12">>)},
     GL_PROJECT_PATH |-> {None, Some(<<"group/", "project">>)},
     GL_PROTOCOL |-> {None, Some(<<"http">>), Some(<<"ssh">>), Some(<<"web">>),
                      Some(<<"ftp">>)},
     GL_REPOSITORY |-> {None, Some(<<"project-", "42">>), Some(<<"42">>),
                        Some(<<"project-">>)},
     GL_USERNAME |-> {None, Some(<<"ann">>)}]

InitGitlab ==
    /\ head = Some(Main)
    /\ files = OnlyFile(<<"hooks.yaml">>,
                        Text(Document(Some(Hook(Webhook(None, None), None)),
                                      None, None, None)))
    /\ endpoint = [kind |-> "response", status |-> 200, body |-> Some(<<Msg("hi")>>)]
    /\ argv = <<<<"/", "hooks", "/", "pre-receive">>>>
    /\ cwd = Some(<<"/", "repo">>)
    /\ env_count = None
    /\ env_option = NoOptions
    /\ stdin = <<HashA \o Sp \o HashB \o Sp \o RefMain>>
    /\ repo = "linear"
    /\ gl_env \in [GitlabVariables -> UNION {GitlabValues[v] : v \in GitlabVariables}]
    /\ \A v \in GitlabVariables : gl_env[v] \in GitlabValues[v]
    /\ Start

SpecGitlab == InitGitlab /\ [][Next]_vars

---------------------------------------------------------------------------
(* The output of git log and of git diff --name-status, parsed *)

MaxRecords == 2

MaxStatusLines == 2

Commit == Ok(<<"commit">>)

Empty == Ok(<<>>)

NotUtf8 == Err(<<"stream did not contain valid UTF-8">>)

Author == Ok(<<"Ann <a@x>">>)

Date == Ok(<<"2024-05-01T10:00:00+02:00">>)

\* a record of git log in the format git_log asks for: commit, hash,
\* parents, empty line, author, date, committer, date, key id, the indented
\* message, empty line
Record(hash, parents, author, author_date, key, message) ==
    <<Commit, hash, parents, Empty, author, author_date, Author, Date, key>>
    \o message \o <<Empty>>

SignedRecord ==
    Record(Ok(<<"9fceb02d">>), Ok(<<"41ab77c0">>), Author, Date, Ok(<<"ABCD">>),
           <<Ok(<<"    ", "fix">>)>>)

UnsignedRecord ==
    Record(Ok(<<"41ab77c0">>), Ok(<<"9fceb02d">>), Author, Ok(<<"2024-05-01T08:00:00Z">>),
           Empty, <<Ok(<<"    ", "fix">>), Ok(<<"    ", "typo">>)>>)

\* the records git can write, whole, broken or cut short
LogRecords ==
    {SignedRecord,
     UnsignedRecord,
     \* a commit without parents: the parents line is empty
     Record(Ok(<<"9fceb02d">>), Empty, Author, Date, Empty, <<Ok(<<"    ", "fix">>)>>),
     \* a date that is no date
     Record(Ok(<<"9fceb02d">>), Ok(<<"41ab77c0">>), Author, Ok(<<"yesterday">>),
            Ok(<<"ABCD">>), <<Ok(<<"    ", "fix">>)>>),
     \* an author that is not UTF-8
     Record(Ok(<<"9fceb02d">>), Ok(<<"41ab77c0">>), NotUtf8, Date, Empty,
            <<Ok(<<"    ", "fix">>)>>),
     \* a message line shorter than the indent
     Record(Ok(<<"9fceb02d">>), Ok(<<"41ab77c0">>), Author, Date, Empty, <<Ok(<<"ab">>)>>),
     \* cut after "commit", before the key id, and after it
     <<Commit>>,
     SubSeq(SignedRecord, 1, 8),
     SubSeq(SignedRecord, 1, 9),
     \* not a record at all
     <<Ok(<<"warning: x">>)>>}

StatusLetters == {"A", "C", "D", "M", "R", "T", "U", "X", "B"}

\* the lines git diff --name-status can write, and lines it cannot
StatusLines ==
    {Ok(<<l, "\t", "src/main.rs">>) : l \in StatusLetters}
    \cup {Ok(<<" ", "D", " ", " ", "old.txt", "\t">>),
          Ok(<<"R100", "\t", "a.rs", "\t", "b.rs">>),
          Ok(<<"R", "\t", "a.rs", "\t", "b.rs">>),
          Ok(<<"Q", "\t", "x.rs">>),
          Ok(<<"M">>),
          Empty,
          NotUtf8}

InitGit ==
    /\ head = None
    /\ files = [f \in AllFiles |-> Absent]
    /\ argv = <<<<"/", "hooks", "/", "pre-receive">>>>
    /\ cwd = Some(<<"/", "repo">>)
    /\ env_count = None
    /\ env_option = NoOptions
    /\ stdin = <<>>
    /\ repo = "linear"
    /\ endpoint = [kind |-> "error"]
    /\ gl_env = NoGitlab
    /\ Started
    /\ output = <<>>
    /\ \/ /\ parsing = "log"
          /\ git_output \in SeqsUpTo(LogRecords, MaxRecords)
       \/ /\ parsing = "name_status"
          /\ git_output \in SeqsUpTo({<<l>> : l \in StatusLines}, MaxStatusLines)
    /\ unread = Flatten(git_output)

\* the loops of parse_log and parse_name_status run without waiting for
\* anything: a step that can be taken is taken
SpecGit == InitGit /\ [][NextGit]_vars /\ WF_vars(NextGit)

---------------------------------------------------------------------------
(* The hook shell: exit status and output *)

\* what the selected hook's rule evaluates to against resolved change i,
\* evaluated on its own
ResultFor(i) ==
    RuleEvaluate(hook.some.rule, RuleContext(resolved_changes[i]), FreshState).res

RejectsChange(i) == ResultFor(i).ok /\ ResultFor(i).val.action = "Reject"

ErrorRejectsChange(i) ==
    ~ResultFor(i).ok /\ hook.some.reject_on_error \in {None, Some(TRUE)}

\* C1: a pre-receive invocation whose input resolves to at least one change
\* exits with 1 if the rule rejects any of the changes, and exits with 0 only
\* if no change is rejected (and none fails to evaluate with reject-on-error
\* true or unset).
C1_AnyRejectedChangeRejectsThePush ==
    (pc = "exited" /\ hook_type = Some("PreReceive") /\ resolved_changes # <<>>) =>
        /\ (\E i \in 1..Len(resolved_changes) : RejectsChange(i))
              => exit_code = Some(1)
        /\ exit_code = Some(0)
              => \A i \in 1..Len(resolved_changes) :
                    ~RejectsChange(i) /\ ~ErrorRejectsChange(i)

\* C2: the rule is evaluated against every resolved change, one at a time
\* and in arrival order: when the process has exited, the top-level
\* evaluations are those of the changes 1..n, in this order.
C2_EveryChangeIsEvaluatedInOrder ==
    (pc = "exited" /\ resolved_changes # <<>>) =>
        /\ Len(evaluations) = Len(resolved_changes)
        /\ \A i \in 1..Len(evaluations) : evaluations[i].index = i

\* C3: when the top-level evaluation of a change succeeds, Accept and
\* Continue print the result's messages in order to standard output and exit
\* with 0, Reject prints them in order to standard error and exits with 1.
\* (Standard output starts with what evaluation itself printed.)
C3_SuccessfulEvaluationIsTranslated ==
    \A e \in 1..Len(evaluations) :
        evaluations[e].res.ok =>
            /\ pc = "exited"
            /\ evaluations[e].res.val.action \in {"Accept", "Continue"} =>
                  /\ exit_code = Some(0)
                  /\ stdout = evaluations[e].out \o evaluations[e].res.val.messages
                  /\ stderr = <<>>
            /\ evaluations[e].res.val.action = "Reject" =>
                  /\ exit_code = Some(1)
                  /\ stderr = evaluations[e].res.val.messages
                  /\ stdout = evaluations[e].out

\* C3 happens: a top-level Continue with messages was accepted
C3_Witness ==
    /\ pc = "exited"
    /\ Len(evaluations) = 1
    /\ evaluations[1].res.ok
    /\ evaluations[1].res.val.action = "Continue"
    /\ evaluations[1].res.val.messages # <<>>
    /\ stdout = evaluations[1].res.val.messages
    /\ exit_code = Some(0)

\* C4: when the top-level evaluation of a change returns an error, the
\* process exits with 1 and a diagnostic on standard error if the hook's
\* reject-on-error is true or unset, and exits with 0 and an advisory message
\* on standard output only if reject-on-error is false.
C4_EvaluationErrorIsTranslated ==
    \A e \in 1..Len(evaluations) :
        ~evaluations[e].res.ok =>
            /\ pc = "exited"
            /\ hook.some.reject_on_error \in {None, Some(TRUE)} =>
                  /\ exit_code = Some(1)
                  /\ Len(stderr) = 1
                  /\ Head(stderr[1]) = "change rejected, evaluation failed: "
                  /\ stdout = evaluations[e].out
            /\ hook.some.reject_on_error = Some(FALSE) =>
                  /\ exit_code = Some(0)
                  /\ Len(stdout) = Len(evaluations[e].out) + 1
                  /\ Head(stdout[Len(stdout)]) = "change accepted, but evaluation failed: "
                  /\ stderr = <<>>

\* C4 happens: an evaluation failed under a hook that leaves reject-on-error
\* unset
C4_Witness ==
    /\ pc = "exited"
    /\ Len(evaluations) = 1
    /\ ~evaluations[1].res.ok
    /\ hook.some.reject_on_error = None
    /\ exit_code = Some(1)

---------------------------------------------------------------------------
(* The change resolver *)

\* the all-zero sentinel: no character other than '0'
AllZero(hash) == {hash[i] : i \in 1..Len(hash)} \subseteq {"0"}

\* the variant a triple is classified as, with its identity; None when the
\* triple is discarded
Classified(line) ==
    CASE AllZero(line.old_commit) /\ ~AllZero(line.new_commit) ->
            Some([type |-> "AddRef", name |-> line.ref_name,
                  commit |-> line.new_commit])
      [] AllZero(line.new_commit) /\ ~AllZero(line.old_commit) ->
            Some([type |-> "RemoveRef", name |-> line.ref_name,
                  commit |-> line.old_commit])
      [] ~AllZero(line.old_commit) /\ ~AllZero(line.new_commit) ->
            Some([type |-> "UpdateRef", name |-> line.ref_name,
                  old_commit |-> line.old_commit,
                  new_commit |-> line.new_commit])
      [] OTHER -> None

\* the variant and identity of a resolved change
Identity(change) ==
    IF change.type = "UpdateRef"
    THEN [type |-> change.type, name |-> change.name,
          old_commit |-> change.old_commit, new_commit |-> change.new_commit]
    ELSE [type |-> change.type, name |-> change.name, commit |-> change.commit]

\* C10: resolve_change classifies every (old, new, ref) triple by the
\* all-zero sentinel: old all-zero and new not gives AddRef(ref, new); new
\* all-zero and old not gives RemoveRef(ref, old), which carries no facts;
\* neither all-zero gives UpdateRef(ref, old, new); both all-zero gives no
\* change, so an input of only such lines triggers no rule evaluation and
\* the process exits with 0.
C10_ChangesAreClassifiedBySentinel ==
    (pc \in {"evaluate", "exited"} /\ changes # <<>>) =>
        /\ [i \in 1..Len(resolved_changes) |-> Identity(resolved_changes[i])]
              = FilterSome([i \in 1..Len(changes) |-> Classified(changes[i])])
        /\ \A i \in 1..Len(resolved_changes) :
              resolved_changes[i].type = "RemoveRef"
                 <=> "git_data" \notin DOMAIN resolved_changes[i]
        /\ (pc = "exited"
            /\ \A i \in 1..Len(changes) :
                  AllZero(changes[i].old_commit) /\ AllZero(changes[i].new_commit))
              => (evaluations = <<>> /\ exit_code = Some(0))

\* C10 happens: a line with both sides all-zero was dropped and a line with
\* only the new side all-zero was resolved to a RemoveRef
C10_Witness ==
    /\ pc = "exited"
    /\ Len(changes) = 2
    /\ AllZero(changes[1].old_commit) /\ AllZero(changes[1].new_commit)
    /\ Len(resolved_changes) = 1
    /\ resolved_changes[1].type = "RemoveRef"
    /\ resolved_changes[1].commit = changes[2].old_commit

---------------------------------------------------------------------------
(* The bypass *)

\* the value of GIT_PUSH_OPTION_COUNT, 0 when unset or not a number
OptionCount ==
    IF IsSome(env_count) /\ env_count.some.digits THEN env_count.some.value ELSE 0

\* the bypass is configured and its option is one of the push options
BypassAsked ==
    /\ IsSome(loaded_from)
    /\ IsSome(config.bypass)
    /\ \E n \in DOMAIN env_option :
          n < OptionCount /\ env_option[n] = Some(config.bypass.some.push_option)

BypassMessages ==
    IF IsSome(config.bypass.some.messages)
    THEN config.bypass.some.messages.some
    ELSE <<>>

\* the git subprocesses that main starts before it looks at the changes
OnlyStartupGit(calls) ==
    \A i \in 1..Len(calls) : calls[i].cmd \in {"rev-parse", "show"}

\* C5: once the configuration is loaded, a requested bypass makes the next
\* step the exit with status 0, the bypass messages being all of stdout, no
\* hook selected, no change read or resolved, nothing evaluated, no request
\* sent and no git log, merge-base or diff started; without a requested
\* bypass the process goes on to select the hook and has printed nothing.
C5_BypassExitsBeforeAnythingElse ==
    [][pc = "attempt_bypass" =>
         IF BypassAsked
         THEN /\ pc' = "exited"
              /\ exit_code' = Some(0)
              /\ stdout' = BypassMessages
              /\ stderr' = <<>>
              /\ hook' = None /\ hook_type' = None
              /\ changes' = <<>> /\ resolved_changes' = <<>>
              /\ evaluations' = <<>>
              /\ http' = <<>>
              /\ OnlyStartupGit(git')
         ELSE /\ pc' = "select_hook"
              /\ exit_code' = None
              /\ stdout' = <<>> /\ stderr' = <<>>]_vars

C5_Witness ==
    /\ pc = "exited"
    /\ BypassAsked
    /\ env_option[0] # Some(SkipHooks)
    /\ stdout = <<Msg("bypassed")>>
    /\ exit_code = Some(0)
    /\ hook = None

---------------------------------------------------------------------------
(* The configuration loader *)

RECURSIVE FirstPresent(_)
\* the first file of `order` that exists at HEAD, if any
FirstPresent(order) ==
    IF order = <<>> THEN None
    ELSE IF files[Head(order)] # Absent THEN Some(Head(order))
    ELSE FirstPresent(Tail(order))

Unreadable(content) == content.kind \in {"io_error", "invalid_utf8"}

Broken(content) == content.kind = "text" /\ content.text \in BrokenDocuments

\* the configuration file is the first of the files the loader tries that
\* exists; it is missing, cannot be read or does not parse
ConfigurationProblem ==
    \/ FirstPresent(ConfigFiles) = None
    \/ /\ IsSome(FirstPresent(ConfigFiles))
       /\ \/ Unreadable(files[FirstPresent(ConfigFiles).some])
          \/ Broken(files[FirstPresent(ConfigFiles).some])

Diagnosed ==
    /\ Len(stderr) = 1
    /\ Len(stderr[1]) > 1
    /\ stderr[1][1] = "Failed to parse hook configuration: "

\* C6: when the configuration file is absent, unreadable, not well-formed or
\* holds an empty or invalid pattern, no hook is selected, no change is read
\* or resolved, nothing is evaluated, and the process ends with status 0 and
\* nothing on stdout; stderr is the diagnostic when a file was there, and
\* empty otherwise.
C6_ConfigurationProblemsFailOpen ==
    ConfigurationProblem =>
        /\ loaded_from = None
        /\ hook = None
        /\ changes = <<>> /\ resolved_changes = <<>>
        /\ evaluations = <<>>
        /\ pc \in {"get_default_branch", "load_config", "exited"}
        /\ pc = "exited" =>
              /\ exit_code = Some(0)
              /\ stdout = <<>>
              /\ IF IsSome(head) /\ IsSome(FirstPresent(ConfigFiles))
                 THEN Diagnosed
                 ELSE stderr = <<>>

\* an empty pattern in the second file tried, the first being absent
C6_Witness ==
    /\ pc = "exited"
    /\ IsSome(head)
    /\ files[<<"hooks.yaml">>] = Absent
    /\ files[<<"hooks.yml">>] = Text(DocEmptyPattern)
    /\ exit_code = Some(0)
    /\ Diagnosed
    /\ evaluations = <<>>

\* the order in which the files are documented to be tried
PriorityOrder ==
    <<<<"hooks.json">>, <<"hooks.yaml">>, <<"hooks.yml">>, <<"hooks.toml">>>>

Loads(content) ==
    content.kind = "text" /\ content.text \in {DocAccept, DocReject}

\* C8: when the process has ended, and the first file that exists at HEAD in
\* the order hooks.json, hooks.yaml, hooks.yml, hooks.toml holds a
\* configuration that loads, that file is the one the configuration was
\* loaded from; so a repository whose only file is hooks.json enforces it.
C8_FirstExistingFileInPriorityOrderIsLoaded ==
    /\ pc = "exited"
    /\ IsSome(head)
    /\ IsSome(FirstPresent(PriorityOrder))
    /\ Loads(files[FirstPresent(PriorityOrder).some])
    => loaded_from = FirstPresent(PriorityOrder)

---------------------------------------------------------------------------
(* The update hook's arguments *)

\* C7: once the update hook has read its change from an invocation
\* `<program> <ref> <old> <new>`, that change is the only one, its ref name
\* is <ref>, its old commit <old> and its new commit <new>.
C7_UpdateChangeIsTakenFromArguments ==
    /\ hook_type = Some("Update")
    /\ Len(argv) = 4
    /\ pc \in {"resolve_changes", "evaluate", "exited"}
    => changes = <<[ref_name |-> argv[2],
                    old_commit |-> argv[3],
                    new_commit |-> argv[4]]>>

---------------------------------------------------------------------------
(* The hook selection *)

HookNames == {<<"pre-receive">>, <<"update">>, <<"post-receive">>}

\* the hook configured under a hook name, and its type
ConfiguredHook(name) ==
    CASE name = <<"pre-receive">> -> config.pre_receive
      [] name = <<"update">> -> config.update
      [] name = <<"post-receive">> -> config.post_receive
      [] OTHER -> None

TypeOfName(name) ==
    CASE name = <<"pre-receive">> -> "PreReceive"
      [] name = <<"update">> -> "Update"
      [] name = <<"post-receive">> -> "PostReceive"

\* the hook of `name` is the one main goes on with
Selects(name) ==
    /\ hook = ConfiguredHook(name)
    /\ hook_type = Some(TypeOfName(name))

NothingSelected ==
    /\ hook = None /\ hook_type = None
    /\ changes = <<>> /\ resolved_changes = <<>> /\ evaluations = <<>>
    /\ pc = "exited" /\ exit_code = Some(0)

\* select_hook has returned
Selected == pc \in {"get_changes", "resolve_changes", "evaluate", "exited"}

ProgramPath == get_absolute_program_path(argv, cwd)

BaseName == ProgramPath.val[Len(ProgramPath.val)]

HasParent == Len(ProgramPath.val) >= 2

ParentName == ProgramPath.val[Len(ProgramPath.val) - 1]

\* `name` without one trailing ".d"
WithoutSuffix(name) ==
    IF name # <<>> /\ name[Len(name)] = ".d"
    THEN SubSeq(name, 1, Len(name) - 1)
    ELSE name

\* `name` without any of its trailing ".d"
WithoutSuffixes(name) ==
    LET keep == {k \in 0..Len(name) :
                    /\ \A i \in (k + 1)..Len(name) : name[i] = ".d"
                    /\ k > 0 => name[k] # ".d"}
    IN SubSeq(name, 1, CHOOSE k \in keep : TRUE)

\* C9 as stated: a base name that is a hook name decides alone, whether or
\* not that hook is configured; otherwise the parent directory's name
\* without one trailing ".d" decides.
C9_ParentOnlyWhenBaseNameIsNoHookName ==
    Selected /\ ProgramPath.ok =>
        IF BaseName \in HookNames
        THEN IF IsSome(ConfiguredHook(BaseName))
             THEN Selects(BaseName) ELSE NothingSelected
        ELSE IF HasParent /\ IsSome(ConfiguredHook(WithoutSuffix(ParentName)))
             THEN Selects(WithoutSuffix(ParentName)) ELSE NothingSelected

\* C9, amended: the base name selects its hook when that hook is configured;
\* otherwise the parent directory's name without all of its trailing ".d"
\* selects its hook when that one is configured; otherwise no hook is
\* selected, no change is read, nothing is evaluated and the exit status is 0.
C9_ParentWhenBaseNameSelectsNoHook ==
    Selected =>
        IF ~ProgramPath.ok THEN NothingSelected
        ELSE IF IsSome(ConfiguredHook(BaseName)) THEN Selects(BaseName)
        ELSE IF HasParent /\ IsSome(ConfiguredHook(WithoutSuffixes(ParentName)))
             THEN Selects(WithoutSuffixes(ParentName))
        ELSE NothingSelected

\* a program called `update` in pre-receive.d, no update hook configured
C9_Witness ==
    /\ Selected
    /\ ProgramPath.ok
    /\ BaseName = <<"update">>
    /\ config.update = None
    /\ HasParent
    /\ ParentName = <<"pre-receive", ".d">>
    /\ hook_type = Some("PreReceive")
    /\ hook = config.pre_receive
    /\ IsSome(hook)

---------------------------------------------------------------------------
(* Conditions, observed through a rule that is one condition *)

\* the condition of the hook's rule has been evaluated against the change
Evaluated ==
    /\ Len(evaluations) = 1
    /\ hook.some.rule.type = "conditional"

TheCondition == hook.some.rule.condition

TheChange == resolved_changes[1]

\* the condition was found true, found false
Held == evaluations[1].res = Ok(RuleResult("Continue", <<>>))

Failed == evaluations[1].res = Ok(RuleResult("Reject", <<>>))

\* C11: every UpdateRef carries the merge base git reports for (old, new),
\* and force is TRUE exactly when there is no merge base or it differs from
\* the old commit; linear-history holds on AddRef and RemoveRef and, on
\* UpdateRef, holds exactly when force is FALSE.
C11_ForceIsNoFastForward ==
    /\ \A i \in 1..Len(resolved_changes) :
          resolved_changes[i].type = "UpdateRef" =>
              /\ resolved_changes[i].merge_base
                    = GitMergeBase(repo, resolved_changes[i].old_commit,
                                   resolved_changes[i].new_commit)
              /\ resolved_changes[i].force
                    = (\/ resolved_changes[i].merge_base = None
                       \/ resolved_changes[i].merge_base
                             # Some(resolved_changes[i].old_commit))
    /\ (Evaluated /\ TheCondition.type = "linear-history") =>
          IF TheChange.type = "UpdateRef" /\ TheChange.force THEN Failed ELSE Held

\* a push onto a branch that has diverged: the merge base is another commit
C11_Witness ==
    /\ Evaluated
    /\ TheCondition.type = "linear-history"
    /\ TheChange.type = "UpdateRef"
    /\ IsSome(TheChange.merge_base)
    /\ TheChange.merge_base # Some(TheChange.old_commit)
    /\ TheChange.force
    /\ Failed

---------------------------------------------------------------------------
(* Rules, observed through the evaluation of the hook's rule *)

TheRule == hook.some.rule

\* the hook's rule has been evaluated against the change
RuleEvaluated == Len(evaluations) = 1

\* a rule, a condition evaluated on its own against the change
Alone(rule) == RuleEvaluate(rule, RuleContext(TheChange), FreshState)

ConditionAlone(c) == ConditionEvaluate(c, RuleContext(TheChange), FreshState)


\* a sub-rule that ends a chain: it accepts, rejects or fails
Decides(rule) ==
    ~Alone(rule).res.ok \/ Alone(rule).res.val.action \in {"Accept", "Reject"}

\* the sub-rule a chain ends at: the first that decides, else the last
ChainStop(rules) ==
    IF \E i \in 1..Len(rules) : Decides(rules[i])
    THEN CHOOSE i \in 1..Len(rules) :
            Decides(rules[i]) /\ \A j \in 1..(i - 1) : ~Decides(rules[j])
    ELSE Len(rules)

Promoted(res) ==
    IF res.ok /\ res.val.action = "Continue"
    THEN Ok(RuleResult("Accept", res.val.messages))
    ELSE res

\* C12: a chain evaluates its sub-rules in order up to the first one that
\* accepts or rejects (or fails) and no further, and returns that sub-rule's
\* result; when every sub-rule continues it returns Accept with the messages
\* of the last one.  A chain never returns Continue, and sends no webhook
\* request of a sub-rule it did not reach.
C12_ChainStopsAtFirstDecision ==
    (RuleEvaluated /\ TheRule.type = "chain") =>
        /\ evaluations[1].trace
              = <<TheRule>>
                \o Flatten([i \in 1..ChainStop(TheRule.rules) |->
                               Alone(TheRule.rules[i]).st.trace])
        /\ evaluations[1].res
              = Promoted(Alone(TheRule.rules[ChainStop(TheRule.rules)]).res)
        /\ evaluations[1].res.ok => evaluations[1].res.val.action # "Continue"
        /\ Len(http) = Cardinality({i \in 1..ChainStop(TheRule.rules) :
                                       TheRule.rules[i].type = "webhook"})

\* three sub-rules that all continue, the last one a webhook that answers
C12_Witness ==
    /\ RuleEvaluated
    /\ TheRule.type = "chain"
    /\ Len(TheRule.rules) = 3
    /\ \A i \in 1..3 : ~Decides(TheRule.rules[i])
    /\ TheRule.rules[2] = Continues(<<Msg("c")>>)
    /\ TheRule.rules[3].type = "webhook"
    /\ evaluations[1].res = Ok(RuleResult("Accept", <<Msg("hi")>>))
    /\ Len(evaluations[1].trace) > 3

\* the result of the condition of branch i of a select, evaluated on its own
BranchTest(rule, i) == ConditionAlone(rule.first_of[i].condition)

\* a branch whose condition is true, or fails
Taken(rule, i) == ~BranchTest(rule, i).res.ok \/ BranchTest(rule, i).res.val

\* the branch a select ends at: the first that is taken, 0 when none is
SelectStop(rule) ==
    IF \E i \in 1..Len(rule.first_of) : Taken(rule, i)
    THEN CHOOSE i \in 1..Len(rule.first_of) :
            Taken(rule, i) /\ \A j \in 1..(i - 1) : ~Taken(rule, j)
    ELSE 0

\* the conditions of the branches 1..k, as evaluated
TestsUpTo(rule, k) == Flatten([i \in 1..k |-> BranchTest(rule, i).st.trace])

\* the webhook rules among the rules and conditions evaluated
Requests(trace) == Cardinality({i \in 1..Len(trace) : trace[i].type = "webhook"})

\* C13: a select evaluates the conditions of its branches in order up to the
\* first one that is true, then evaluates that branch's rule and returns its
\* result, evaluating no later condition or rule and not the default; when
\* no condition is true it evaluates and returns the default, and returns
\* Reject without messages when there is no default.  Nothing else is
\* evaluated, and no other webhook request is sent.
C13_SelectTakesFirstTrueBranch ==
    (RuleEvaluated /\ TheRule.type = "select") =>
        /\ Len(http) = Requests(evaluations[1].trace)
        /\ IF SelectStop(TheRule) = 0
           THEN IF IsSome(TheRule.default)
                THEN /\ evaluations[1].res = Alone(TheRule.default.some).res
                     /\ evaluations[1].trace
                           = <<TheRule>> \o TestsUpTo(TheRule, Len(TheRule.first_of))
                             \o Alone(TheRule.default.some).st.trace
                ELSE /\ evaluations[1].res = Ok(RuleResult("Reject", <<>>))
                     /\ evaluations[1].trace
                           = <<TheRule>> \o TestsUpTo(TheRule, Len(TheRule.first_of))
           ELSE IF BranchTest(TheRule, SelectStop(TheRule)).res.ok
                THEN /\ evaluations[1].res
                           = Alone(TheRule.first_of[SelectStop(TheRule)].rule).res
                     /\ evaluations[1].trace
                           = <<TheRule>> \o TestsUpTo(TheRule, SelectStop(TheRule))
                             \o Alone(TheRule.first_of[SelectStop(TheRule)].rule).st.trace
                ELSE /\ ~evaluations[1].res.ok
                     /\ evaluations[1].trace
                           = <<TheRule>> \o TestsUpTo(TheRule, SelectStop(TheRule))

\* the first of two branches is taken; the second, which would send a
\* request, and the default are not looked at
C13_Witness ==
    /\ RuleEvaluated
    /\ TheRule.type = "select"
    /\ Len(TheRule.first_of) = 2
    /\ TheRule.first_of[1] = [condition |-> ReadsLog, rule |-> Accept(<<Msg("a")>>)]
    /\ TheRule.first_of[2].condition = AsksWebhook
    /\ IsSome(TheRule.default)
    /\ TheChange.type = "UpdateRef"
    /\ evaluations[1].res = Ok(RuleResult("Accept", <<Msg("a")>>))
    /\ evaluations[1].trace = <<TheRule, ReadsLog, Accept(<<Msg("a")>>)>>
    /\ http = <<>>

\* what a conditional makes of an optional completion
Completion(on_complete, default_action) ==
    IF on_complete = None
    THEN [action |-> default_action, messages |-> <<>>]
    ELSE [action |-> on_complete.some.action, messages |-> on_complete.some.messages]

\* C14: a conditional evaluates its condition once and nothing else; when
\* the condition is true the result is on_success's action and messages, or
\* Continue without messages when on_success is absent; when it is false the
\* result is on_failure's action and messages, or Reject without messages
\* when on_failure is absent.
C14_ConditionalMapsConditionToCompletion ==
    (RuleEvaluated /\ TheRule.type = "conditional") =>
        /\ evaluations[1].trace
              = <<TheRule>> \o ConditionAlone(TheRule.condition).st.trace
        /\ Cardinality({i \in 1..Len(evaluations[1].trace) :
                           evaluations[1].trace[i] = TheRule.condition}) = 1
        /\ IF ~ConditionAlone(TheRule.condition).res.ok
           THEN ~evaluations[1].res.ok
           ELSE IF ConditionAlone(TheRule.condition).res.val
           THEN evaluations[1].res = Ok(Completion(TheRule.on_success, "Continue"))
           ELSE evaluations[1].res = Ok(Completion(TheRule.on_failure, "Reject"))

\* a false condition with an on_failure that accepts
C14_Witness ==
    /\ RuleEvaluated
    /\ TheRule.type = "conditional"
    /\ TheRule.condition = [type |-> "ref-add"]
    /\ TheChange.type = "UpdateRef"
    /\ TheRule.on_success = None
    /\ IsSome(TheRule.on_failure)
    /\ evaluations[1].res = Ok(RuleResult("Accept", <<Msg("yes"), Msg("go on")>>))

---------------------------------------------------------------------------
(* Boolean composites *)

\* child i of the composite c, evaluated on its own
Child(c, i) == ConditionAlone(c.conditions[i])

\* a child that ends the scan of an `and` (b = FALSE) or an `or` (b = TRUE):
\* it evaluates to b, or fails
Ends(c, i, b) == ~Child(c, i).res.ok \/ Child(c, i).res.val = b

\* the child the scan ends at: the first that ends it, else the last
ScanStop(c, b) ==
    IF \E i \in 1..Len(c.conditions) : Ends(c, i, b)
    THEN CHOOSE i \in 1..Len(c.conditions) :
            Ends(c, i, b) /\ \A j \in 1..(i - 1) : ~Ends(c, j, b)
    ELSE Len(c.conditions)

ChildrenUpTo(c, k) == Flatten([i \in 1..k |-> Child(c, i).st.trace])

\* the `git log` subprocesses started
LogCalls == Cardinality({i \in 1..Len(git) : git[i].cmd = "log"})

\* a child that reads the commit log of a change that has one
ReadsTheLog(child) ==
    child \in {ReadsLog, AsksWebhook} /\ TheChange.type # "RemoveRef"

\* the composite c, which stops at the value b, was evaluated left to right
\* up to the first child with the value b (or the first that failed) and no
\* further: the children after it were not evaluated, sent no request and
\* started no git log
ShortCircuits(c, b) ==
    /\ evaluations[1].trace
          = <<TheRule, c>> \o ChildrenUpTo(c, ScanStop(c, b))
    /\ Len(http) = Requests(ChildrenUpTo(c, ScanStop(c, b)))
    /\ LogCalls = IF \E i \in 1..ScanStop(c, b) : ReadsTheLog(c.conditions[i])
                  THEN 1 ELSE 0
    /\ IF ~Child(c, ScanStop(c, b)).res.ok THEN ~evaluations[1].res.ok
       ELSE IF Child(c, ScanStop(c, b)).res.val = b
       THEN IF b THEN Held ELSE Failed
       ELSE IF b THEN Failed ELSE Held

\* C15: `and` evaluates its children left to right, is false at the first
\* false child without evaluating a later one, and is true iff all children
\* are true; `or` is true at the first true child without evaluating a later
\* one, and is false iff all children are false.  The requests and git calls
\* of the children after the stop do not happen.
C15_AndOrShortCircuit ==
    /\ (Evaluated /\ TheCondition.type = "and") =>
          /\ ShortCircuits(TheCondition, FALSE)
          /\ Held <=> \A i \in 1..Len(TheCondition.conditions) :
                         Child(TheCondition, i).res = Ok(TRUE)
    /\ (Evaluated /\ TheCondition.type = "or") =>
          /\ ShortCircuits(TheCondition, TRUE)
          /\ Failed <=> \A i \in 1..Len(TheCondition.conditions) :
                           Child(TheCondition, i).res = Ok(FALSE)

\* and[true, false, <webhook>] on an update: false, and no request is sent
C15_Witness ==
    /\ Evaluated
    /\ TheCondition = [type |-> "and", conditions |-> <<True, False, AsksWebhook>>]
    /\ TheChange.type = "UpdateRef"
    /\ evaluations[1].trace = <<TheRule, TheCondition, True, False>>
    /\ Failed
    /\ http = <<>>
    /\ LogCalls = 0

\* every child of the composite c evaluates to a boolean
AllDecided(c) == \A i \in 1..Len(c.conditions) : Child(c, i).res.ok

\* two children of c evaluate to different values
Disagree(c) ==
    \E i, j \in 1..Len(c.conditions) : Child(c, i).res.val # Child(c, j).res.val

---------------------------------------------------------------------------
(* Conditions over the commit log, the changed files and the ref name *)

\* the commit log of the change: what the one `git log` that was started lists
TheLog ==
    GitLogEntries(repo, git[CHOOSE i \in 1..Len(git) : git[i].cmd = "log"].args)

SignedBy(entry, keys) ==
    /\ entry.signed_by_key_id # None
    /\ \E k \in 1..Len(keys) : keys[k] = entry.signed_by_key_id.some

\* C17: all-commits-signed is true on a RemoveRef; on an AddRef or UpdateRef
\* it is true, with a list of allowed key ids, iff every entry of the commit
\* log is signed with a key of the list, and, without a list, iff every
\* entry is signed.
C17_AllCommitsSigned ==
    (Evaluated /\ TheCondition.type = "all-commits-signed") =>
        /\ Held \/ Failed
        /\ IF TheChange.type = "RemoveRef" THEN Held
           ELSE IF TheCondition.allowed_key_ids = None
           THEN Held <=> \A i \in 1..Len(TheLog) : TheLog[i].signed_by_key_id # None
           ELSE Held <=> \A i \in 1..Len(TheLog) :
                            SignedBy(TheLog[i], TheCondition.allowed_key_ids.some)

---------------------------------------------------------------------------
(* The rule condition *)

\* C18: the rule condition evaluates its embedded rule once and nothing
\* else; it is true when the rule accepts or continues and false when it
\* rejects, and the rule's messages do not appear in the result; when the
\* rule's evaluation fails, the condition fails with an error that wraps the
\* rule's error, and this error is what the enclosing rule returns.
C18_RuleConditionMapsActionToBoolean ==
    (Evaluated /\ TheCondition.type = "rule") =>
        /\ evaluations[1].trace
              = <<TheRule, TheCondition>> \o Alone(TheCondition.rule).st.trace
        /\ Cardinality({i \in 1..Len(evaluations[1].trace) :
                           evaluations[1].trace[i] = TheCondition.rule}) = 1
        /\ Len(http) = Requests(evaluations[1].trace)
        /\ IF Alone(TheCondition.rule).res.ok
           THEN IF Alone(TheCondition.rule).res.val.action \in {"Accept", "Continue"}
                THEN Held ELSE Failed
           ELSE evaluations[1].res
                   = Err([type |-> "ConditionError",
                          error |-> [type |-> "RuleError",
                                     error |-> Alone(TheCondition.rule).res.err]])

\* an embedded webhook whose request fails
C18_Witness ==
    /\ Evaluated
    /\ TheCondition = AsksWebhook
    /\ endpoint.kind = "error"
    /\ Len(http) = 1
    /\ ~evaluations[1].res.ok
    /\ evaluations[1].res.err.error.error = Alone(TheCondition.rule).res.err
    /\ exit_code = Some(1)

---------------------------------------------------------------------------
(* Fact-dependent conditions on a RemoveRef *)

DerivedConditions == {"derived-from-default-branch", "derived-from-branch"}

ScanConditions ==
    {"any-commit-message-matches", "modified-file-matches",
     "added-file-matches", "removed-file-matches"}

\* the value of the accept-removes flag, `default` when it is not set
Flag(c, default) ==
    IF c.accept_removes = None THEN default ELSE c.accept_removes.some

\* C19: on a RemoveRef, derived-from-default-branch and derived-from-branch
\* are their accept-removes flag, false when unset, and
\* any-commit-message-matches and the three file-matches conditions are
\* their accept-removes flag, true when unset; git is not invoked for them:
\* the only subprocesses are those main started before the change was read.
C19_RemoveRefReturnsAcceptRemoves ==
    (Evaluated /\ TheChange.type = "RemoveRef"
     /\ TheCondition.type \in DerivedConditions \cup ScanConditions) =>
        /\ evaluations[1].trace = <<TheRule, TheCondition>>
        /\ OnlyStartupGit(git)
        /\ IF Flag(TheCondition, TheCondition.type \in ScanConditions)
           THEN Held ELSE Failed

\* derived-from-branch without the flag, on a removed ref
C19_Witness ==
    /\ Evaluated
    /\ TheChange.type = "RemoveRef"
    /\ TheCondition = [type |-> "derived-from-branch", name |-> Main,
                       accept_removes |-> None]
    /\ Failed
    /\ exit_code = Some(1)
    /\ OnlyStartupGit(git)

---------------------------------------------------------------------------
(* Pattern conditions *)

\* the pattern without its anchors
Unanchored(p) ==
    LET from == IF p # <<>> /\ Head(p) = "^" THEN 2 ELSE 1
        to == IF p # <<>> /\ p[Len(p)] = "$" THEN Len(p) - 1 ELSE Len(p)
    IN SubSeq(p, from, to)

\* the pattern matches all of the text
FullMatch(p, text) == MatchHere(Unanchored(p) \o <<"$">>, text)

\* the statuses a file-matches condition looks at
StatusesOf(type) ==
    CASE type = "modified-file-matches" -> {"Modified", "Renamed"}
      [] type = "added-file-matches" -> {"Added"}
      [] type = "removed-file-matches" -> {"Deleted"}

\* the changed files of the change
TheFiles ==
    diff_name_status(repo, TheChange.git_data.old_commit,
                     TheChange.git_data.new_commit)

\* C20: ref-matches is true only if its pattern matches the whole ref name;
\* on a change with facts, any-commit-message-matches is true only if the
\* pattern matches the whole of some commit message, and a file-matches
\* condition only if it matches the whole path of some file with the status
\* it looks at.
C20_PatternsMatchTheWholeString ==
    /\ (Evaluated /\ TheCondition.type = "ref-matches" /\ Held)
          => FullMatch(TheCondition.pattern, TheChange.name)
    /\ (Evaluated /\ TheCondition.type = "any-commit-message-matches"
        /\ TheChange.type # "RemoveRef" /\ Held)
          => \E i \in 1..Len(TheLog) :
                FullMatch(TheCondition.pattern, TheLog[i].message)
    /\ (Evaluated
        /\ TheCondition.type \in {"modified-file-matches", "added-file-matches",
                                  "removed-file-matches"}
        /\ TheChange.type # "RemoveRef" /\ Held)
          => \E i \in 1..Len(TheFiles) :
                /\ TheFiles[i].status \in StatusesOf(TheCondition.type)
                /\ FullMatch(TheCondition.pattern, TheFiles[i].name)

---------------------------------------------------------------------------
(* The lazy facts of a change *)

\* the git subprocesses of the run that materialise a fact
FactCalls(fact) ==
    {i \in 1..Len(git) :
        CASE fact = "log" -> git[i].cmd = "log"
          [] fact = "patch" -> git[i].cmd = "diff" /\ Len(git[i].args) = 1
          [] fact = "file_status" ->
                git[i].cmd = "diff" /\ git[i].args[1] = <<"--name-status">>}

\* the rules and conditions that read a fact of a change that has facts
ReadersOf(fact) ==
    CASE fact = "log" -> {"any-commit-message-matches", "all-commits-signed", "webhook"}
      [] fact = "patch" -> {"webhook"}
      [] fact = "file_status" ->
            {"modified-file-matches", "added-file-matches", "removed-file-matches"}

\* the evaluated rules and conditions that read the fact
Reads(fact) ==
    {i \in 1..Len(evaluations[1].trace) :
        /\ TheChange.type # "RemoveRef"
        /\ evaluations[1].trace[i].type \in ReadersOf(fact)}

\* what git answers for the patch of the change
ThePatch ==
    diff(repo, TheChange.git_data.old_commit, TheChange.git_data.new_commit)

\* C21: over the evaluation of a rule against a change, the git subprocess of
\* each lazy fact runs once when an evaluated rule or condition reads the
\* fact, however many read it, and never when none does; every webhook
\* request carries git's one answer (an absent patch when git failed).
C21_FactsAreMaterialisedAtMostOnce ==
    RuleEvaluated =>
        /\ \A fact \in {"log", "patch", "file_status"} :
              Cardinality(FactCalls(fact)) = IF Reads(fact) = {} THEN 0 ELSE 1
        /\ \A i \in 1..Len(http) :
              TheChange.type # "RemoveRef" =>
                  /\ http[i].changes[1].log = Some(TheLog)
                  /\ http[i].changes[1].patch = ThePatch

\* an added ref: two webhook requests and a log-reading condition are
\* evaluated, the patch's git call fails, and each fact has one git call
C21_Witness ==
    /\ RuleEvaluated
    /\ TheChange.type = "AddRef"
    /\ Len(http) = 2
    /\ ThePatch = None
    /\ Cardinality(Reads("log")) = 2
    /\ Cardinality(FactCalls("log")) = 1
    /\ Cardinality(FactCalls("patch")) = 1

---------------------------------------------------------------------------
(* The webhook leaf, observed when it is the hook's rule *)

WebhookEvaluated == RuleEvaluated /\ TheRule.type = "webhook"

\* the evaluation ended in a WebhookError that wraps a Validation error
ValidationError ==
    /\ ~evaluations[1].res.ok
    /\ evaluations[1].res.err.type = "WebhookError"
    /\ evaluations[1].res.err.error.type = "Validation"

\* the timeouts in effect, in milliseconds
EffectiveConnectTimeout ==
    IF IsSome(TheRule.connect_timeout) THEN TheRule.connect_timeout.some ELSE 1000

EffectiveRequestTimeout ==
    IF IsSome(TheRule.request_timeout) THEN TheRule.request_timeout.some ELSE 3000

\* C22: a webhook's evaluation ends in a Validation error with no request
\* sent iff the effective connect timeout exceeds 5 s or the effective
\* request timeout exceeds 20 s.
C22_TimeoutsAreValidatedBeforeTheRequest ==
    WebhookEvaluated =>
        ((ValidationError /\ http = <<>>)
            <=> (EffectiveConnectTimeout > 5000 \/ EffectiveRequestTimeout > 20000))

\* the messages the response body decodes to
Decoded == IF IsSome(endpoint.body) THEN endpoint.body.some ELSE <<>>

\* C23: a webhook whose request got a response results in Continue for a 2xx
\* status and Reject for any other, with the decoded body as messages (none
\* when it does not decode); a transport failure results in a WebhookError
\* that wraps a Request error.
C23_ResponseIsMappedToRuleResult ==
    (WebhookEvaluated /\ Len(http) = 1) =>
        IF endpoint.kind = "response"
        THEN evaluations[1].res =
                Ok(RuleResult(IF endpoint.status >= 200 /\ endpoint.status <= 299
                              THEN "Continue" ELSE "Reject",
                              Decoded))
        ELSE /\ ~evaluations[1].res.ok
             /\ evaluations[1].res.err.type = "WebhookError"
             /\ evaluations[1].res.err.error.type = "Request"

\* a 403 whose body decodes: Reject with the body's messages, exit status 1
C23_Witness ==
    /\ WebhookEvaluated
    /\ Len(http) = 1
    /\ endpoint.kind = "response"
    /\ endpoint.status = 403
    /\ evaluations[1].res = Ok(RuleResult("Reject", <<Msg("hi"), Msg("there")>>))
    /\ exit_code = Some(1)

\* C24: when a webhook with greeting messages is evaluated and its request
\* is sent, the greeting messages have been printed, whatever becomes of the
\* request.
C24_GreetingIsPrintedBeforeTheRequest ==
    (WebhookEvaluated /\ IsSome(TheRule.greeting_messages) /\ Len(http) = 1) =>
        \A i \in 1..Len(TheRule.greeting_messages.some) :
            Contains(stdout \o stderr, TheRule.greeting_messages.some[i])

---------------------------------------------------------------------------
(* Standard output *)

\* C25: when the process has exited, standard output holds the bypass
\* messages, the messages of the accepted (Accept or Continue) result, or
\* the advisory message of an accepted evaluation error, and nothing else.
C25_StdoutHoldsOnlyAcceptMessages ==
    pc = "exited" =>
        IF evaluations = <<>>
        THEN stdout = <<>> \/ (BypassAsked /\ stdout = BypassMessages)
        ELSE IF ~evaluations[1].res.ok
        THEN \/ stdout = <<>>
             \/ /\ Len(stdout) = 1
                /\ Head(stdout[1]) = "change accepted, but evaluation failed: "
        ELSE IF evaluations[1].res.val.action \in {"Accept", "Continue"}
        THEN stdout = evaluations[1].res.val.messages
        ELSE stdout = <<>>

---------------------------------------------------------------------------
(* The request's metadata *)

\* the variable has the form <prefix><n> for one of the prefixes
Numbered(value, prefixes) ==
    /\ IsSome(value)
    /\ Len(value.some) = 2
    /\ value.some[1] \in prefixes
    /\ value.some[2] \in DigitRuns

\* the five variables are set and have their forms
GitlabWellFormed ==
    /\ Numbered(gl_env["GL_ID"], {"user-", "key-"})
    /\ Numbered(gl_env["GL_REPOSITORY"], {"project-"})
    /\ gl_env["GL_PROTOCOL"] \in {Some(<<"http">>), Some(<<"ssh">>), Some(<<"web">>)}
    /\ IsSome(gl_env["GL_PROJECT_PATH"])
    /\ IsSome(gl_env["GL_USERNAME"])

\* the GitLab arm with the ids read from the variables
GitlabArm ==
    [type |-> "gitlab",
     gitlab |-> [id |-> [type |-> IF gl_env["GL_ID"].some[1] = "user-"
                                  THEN "user" ELSE "key",
                         id |-> gl_env["GL_ID"].some[2]],
                 project_path |-> gl_env["GL_PROJECT_PATH"].some,
                 protocol |-> gl_env["GL_PROTOCOL"].some,
                 repository |-> [type |-> "project",
                                 id |-> gl_env["GL_REPOSITORY"].some[2]],
                 username |-> gl_env["GL_USERNAME"].some]]

\* C26: the metadata of a request is the GitLab arm with the parsed ids when
\* the five GL_* variables are set and well-formed, and the None arm
\* otherwise.
C26_GitlabMetadataIsPopulated ==
    \A i \in 1..Len(http) :
        http[i].metadata = IF GitlabWellFormed THEN GitlabArm ELSE [type |-> "none"]


---------------------------------------------------------------------------
(* git.rs: what parse_log and parse_name_status return *)

\* the output being parsed is that of git log
LogParsed == \A i \in DOMAIN git_output : git_output[i] \in LogRecords

\* the output being parsed is that of git diff --name-status
NameStatusParsed ==
    \A i \in DOMAIN git_output : git_output[i] \in {<<l>> : l \in StatusLines}

\* a record that parse_log_entry turns, whole, into an entry
WellFormed(record) ==
    LET r == parse_log_entry(record)
    IN IF r.panic THEN FALSE
       ELSE r.res.ok /\ IsSome(r.res.val) /\ r.rest = <<>>

RECURSIVE LeadingEntries(_)
\* the entries of the well-formed records before the first malformed one
LeadingEntries(records) ==
    IF records = <<>> THEN <<>>
    ELSE IF ~WellFormed(Head(records)) THEN <<>>
    ELSE <<parse_log_entry(Head(records)).res.val.some>>
         \o LeadingEntries(Tail(records))

\* C27: parse_log stops at the first malformed record: what it returns is
\* exactly the entries of the well-formed records before that record, in
\* order, and no record after it.
C27_ParseLogStopsAtFirstMalformedRecord ==
    (parsing = "done" /\ LogParsed) => output = LeadingEntries(git_output)

\* a record with an unparsable author date, then a well-formed record: the
\* second record is returned
C27_LaterRecordReturned ==
    /\ parsing = "done"
    /\ Len(git_output) = 2
    /\ git_output[1] = Record(Ok(<<"9fceb02d">>), Ok(<<"41ab77c0">>), Author,
                              Ok(<<"yesterday">>), Ok(<<"ABCD">>),
                              <<Ok(<<"    ", "fix">>)>>)
    /\ git_output[2] = SignedRecord
    /\ Len(output) = 1
    /\ output[1].hash = <<"9fceb02d">>
    /\ output[1].signed_by_key_id = Some(<<"ABCD">>)

\* the FileStatus of each status letter of git diff --name-status
StatusOfLetter ==
    [l \in StatusLetters |->
        CASE l = "A" -> "Added"
          [] l = "C" -> "Copied"
          [] l = "D" -> "Deleted"
          [] l = "M" -> "Modified"
          [] l = "R" -> "Renamed"
          [] l = "T" -> "TypeChanged"
          [] l = "U" -> "Unmerged"
          [] l = "X" -> "Unknown"
          [] l = "B" -> "BrokenPairing"]

\* the tokens of a line
Tokens(text) == SelectSeq(text, LAMBDA t : t \notin {" ", "\t"})

\* a line that is a known status letter, whitespace and one path
StatusAndPath(line) ==
    IF ~line.ok THEN FALSE
    ELSE /\ Len(Tokens(line.val)) = 2
         /\ Tokens(line.val)[1] \in StatusLetters

RECURSIVE PairsOf(_)
\* one (status, path) pair for every such line, in the order of the lines
PairsOf(ls) ==
    IF ls = <<>> THEN <<>>
    ELSE IF StatusAndPath(Head(ls))
    THEN <<[status |-> StatusOfLetter[Tokens(Head(ls).val)[1]],
            name |-> <<Tokens(Head(ls).val)[2]>>]>> \o PairsOf(Tail(ls))
    ELSE PairsOf(Tail(ls))

\* C28: parse_name_status returns, in input order, exactly one (status,
\* path) pair for every line that is a known status letter (A, C, D, M, R,
\* T, U, X, B), whitespace and a single path, with the letter's FileStatus;
\* a line with an unknown status, no path or more than two tokens
\* contributes nothing.  While it runs, what is collected and what the
\* unread lines will give make up the answer.
C28_NameStatusPairsOfWellShapedLines ==
    (parsing \in {"name_status", "done"} /\ NameStatusParsed) =>
        /\ output \o PairsOf(unread) = PairsOf(Flatten(git_output))
        /\ parsing = "done" => output = PairsOf(Flatten(git_output))

C28_Witness ==
    /\ parsing = "done"
    /\ git_output = <<<<Ok(<<"R", "\t", "a.rs", "\t", "b.rs">>)>>,
                      <<Ok(<<" ", "D", " ", " ", "old.txt", "\t">>)>>>>
    /\ output = <<[status |-> "Deleted", name |-> <<"old.txt">>]>>

\* C30: parse_log terminates on every finite sequence of lines, malformed
\* records, invalid UTF-8 lines and a truncated final record included: a
\* call of parse_log_entry consumes at least one line or reports the end of
\* the input, so the loop that ignores the errors of an entry ends (with
\* the list, or with the panic of a message line shorter than its indent).
C30_ParseLogTerminates ==
    /\ [][ParseLogEntry => (Len(unread') < Len(unread) \/ parsing' = "done")]_vars
    /\ (parsing = "log") ~> (parsing \in {"done", "panicked"})

C30_Witness ==
    /\ parsing = "done"
    /\ Len(git_output) = 2
    /\ git_output[1] = Record(Ok(<<"9fceb02d">>), Ok(<<"41ab77c0">>), NotUtf8, Date,
                              Empty, <<Ok(<<"    ", "fix">>)>>)
    /\ git_output[2] = SubSeq(SignedRecord, 1, 8)
    /\ unread = <<>>
    /\ output = <<>>


---------------------------------------------------------------------------
(* Errors in composite rules *)

RuleTypes == {"chain", "select", "conditional", "webhook", "accept", "reject"}

\* a rule or a condition of the trace fails when evaluated on its own
FailsAlone(x) ==
    IF x.type \in RuleTypes THEN ~Alone(x).res.ok ELSE ~ConditionAlone(x).res.ok

\* the sub-rule a chain ends at fails
ChainFails(rule) == ~Alone(rule.rules[ChainStop(rule.rules)]).res.ok

\* the condition of the branch a select ends at fails
SelectFails(rule) ==
    IF SelectStop(rule) = 0 THEN FALSE
    ELSE ~BranchTest(rule, SelectStop(rule)).res.ok

\* C29: errors propagate through composite rules without further
\* evaluation.  When sub-rule k of a chain fails, the chain returns that
\* error and evaluates no sub-rule after k; when the condition of branch k
\* of a select fails, the select returns a ConditionError and evaluates
\* neither that branch's rule, nor a later branch, nor the default; a
\* failing webhook leaf gives a WebhookError.  No composite turns an error
\* of something it evaluated into Accept, Continue or Reject.
C29_ErrorsPropagateThroughComposites ==
    RuleEvaluated =>
        /\ (TheRule.type = "chain" /\ ChainFails(TheRule)) =>
              /\ evaluations[1].res
                    = Alone(TheRule.rules[ChainStop(TheRule.rules)]).res
              /\ evaluations[1].trace
                    = <<TheRule>>
                      \o Flatten([i \in 1..ChainStop(TheRule.rules) |->
                                     Alone(TheRule.rules[i]).st.trace])
              /\ Len(http) = Requests(evaluations[1].trace)
        /\ (TheRule.type = "select" /\ SelectFails(TheRule)) =>
              /\ evaluations[1].res
                    = Err([type |-> "ConditionError",
                           error |-> BranchTest(TheRule, SelectStop(TheRule)).res.err])
              /\ evaluations[1].trace
                    = <<TheRule>> \o TestsUpTo(TheRule, SelectStop(TheRule))
              /\ Len(http) = Requests(evaluations[1].trace)
        /\ (TheRule.type = "conditional" /\ ~ConditionAlone(TheRule.condition).res.ok) =>
              evaluations[1].res
                 = Err([type |-> "ConditionError",
                        error |-> ConditionAlone(TheRule.condition).res.err])
        /\ \A i \in 1..Len(evaluations[1].trace) :
              /\ FailsAlone(evaluations[1].trace[i]) => ~evaluations[1].res.ok
              /\ (evaluations[1].trace[i].type = "webhook" /\ endpoint.kind = "error") =>
                    /\ Alone(evaluations[1].trace[i]).res.ok = FALSE
                    /\ Alone(evaluations[1].trace[i]).res.err.type = "WebhookError"

\* the second of three sub-rules is a webhook whose request fails: the chain
\* returns its WebhookError and the third sub-rule is not evaluated
C29_Witness ==
    /\ RuleEvaluated
    /\ TheRule.type = "chain"
    /\ Len(TheRule.rules) = 3
    /\ TheRule.rules[1] = Continues(<<Msg("c")>>)
    /\ TheRule.rules[2].type = "webhook"
    /\ TheRule.rules[3] = Accept(<<Msg("a")>>)
    /\ endpoint.kind = "error"
    /\ ~evaluations[1].res.ok
    /\ evaluations[1].res.err.type = "WebhookError"
    /\ Len(http) = 1
    /\ \A i \in 1..Len(evaluations[1].trace) :
          evaluations[1].trace[i] # Accept(<<Msg("a")>>)

\* the condition of the first of two branches fails: the select returns a
\* ConditionError and nothing more is evaluated
C29_SelectWitness ==
    /\ RuleEvaluated
    /\ TheRule.type = "select"
    /\ Len(TheRule.first_of) = 2
    /\ TheRule.first_of[1].condition = AsksWebhook
    /\ IsSome(TheRule.default)
    /\ endpoint.kind = "error"
    /\ ~evaluations[1].res.ok
    /\ evaluations[1].res.err.type = "ConditionError"
    /\ evaluations[1].trace = <<TheRule, AsksWebhook, Webhook(None, None)>>

====
